---------------------------- MODULE Spec2Model ----------------------------
(***************************************************************************)
(* Model of the 3D interactive graph application:                          *)
(*   modules/gesture_detector.py   GestureDetector                         *)
(*   modules/overlay_visualizer.py OverlayGraphVisualizer                  *)
(*   modules/voice_controller.py   VoiceController                         *)
(*   main.py                       InteractiveGraphApp                     *)
(*                                                                         *)
(* Floating point values are fixed point integers:                         *)
(*   normalized frame coordinates, distances, confidences and zoom         *)
(*   ratios in 1/1000 (0.05 is 50, 1.0 is 1000);                           *)
(*   rotation angles and 3D world coordinates in 1/100000, so that         *)
(*   "movement * sensitivity * 0.01" of the source is                      *)
(*   "movement * sensitivity" here (1/1000 * 0.01 = 1/100000).             *)
(* Python's 0-based landmarks[i] is lm[i + 1].                             *)
(***************************************************************************)
EXTENDS Integers, Sequences, FiniteSets, TLC

VARIABLES
    running,            \* InteractiveGraphApp.running
    current_mode,       \* InteractiveGraphApp.current_mode
    gesture_data,       \* InteractiveGraphApp.gesture_data (last classified event)
    voice_commands,     \* InteractiveGraphApp.voice_commands (queue.Queue)
    graph_visualizer,   \* the visualizer's fields (OverlayGraphVisualizer; GraphVisualizer in SpecLoad)
    gesture_detector,   \* the GestureDetector's fields
    voice_model,        \* VoiceController.model is loaded
    frame,              \* run_camera_loop: the frame read in this iteration
    frame_count,        \* run_camera_loop: frame_count
    pc,                 \* position of the main thread
    voice_pc,           \* position of the voice thread
    last                \* history: the last operation of the main thread

vars == <<running, current_mode, gesture_data, voice_commands, graph_visualizer,
          gesture_detector, voice_model, frame, frame_count, pc, voice_pc, last>>

-----------------------------------------------------------------------------
(* Fixed point arithmetic *)

\* 1.0 in normalized units
One == 10^3

Abs(x) == IF x < 0 THEN -x ELSE x
Max(a, b) == IF a >= b THEN a ELSE b
Min(a, b) == IF a <= b THEN a ELSE b

RECURSIVE SqrtSearch(_, _, _)
SqrtSearch(n, lo, hi) ==
    IF lo >= hi THEN lo
    ELSE LET mid == (lo + hi + 1) \div 2
         IN  IF mid * mid <= n THEN SqrtSearch(n, mid, hi)
                               ELSE SqrtSearch(n, lo, mid - 1)

\* math.sqrt, rounded down to the fixed point resolution
Sqrt(n) == SqrtSearch(n, 0, n)

RECURSIVE SumSeq(_)
SumSeq(s) == IF s = <<>> THEN 0 ELSE Head(s) + SumSeq(Tail(s))

\* Python dict.get(k, default)
Get(d, k, default) == IF k \in DOMAIN d THEN d[k] ELSE default

\* Python dict with d[k] = v executed
Put(d, k, v) == [x \in DOMAIN d \cup {k} |-> IF x = k THEN v ELSE d[x]]

\* Python {} and None
EmptyDict == [x \in {} |-> 0]
None == [none |-> TRUE]
Truthy(d) == d # None /\ DOMAIN d # {}

-----------------------------------------------------------------------------
(* GestureDetector *)

pinch_threshold == 50
fist_threshold == 150
zoom_threshold == 100

calculate_distance(point1, point2) ==
    Sqrt((point1[1] - point2[1]) * (point1[1] - point2[1])
         + (point1[2] - point2[2]) * (point1[2] - point2[2]))

\* sum([lm[c] for lm in landmarks]) / len(landmarks)
Centroid(landmarks) ==
    << SumSeq([i \in 1..Len(landmarks) |-> landmarks[i][1]]) \div Len(landmarks),
       SumSeq([i \in 1..Len(landmarks) |-> landmarks[i][2]]) \div Len(landmarks) >>

\* Each detector returns [det |-> the detector afterwards, result |-> event or None]
detect_pinch(det, landmarks) ==
    LET thumb_tip == landmarks[4 + 1]
        index_tip == landmarks[8 + 1]
        distance == calculate_distance(thumb_tip, index_tip)
        center == << (thumb_tip[1] + index_tip[1]) \div 2,
                     (thumb_tip[2] + index_tip[2]) \div 2 >>
        movement == IF "pinch" \in DOMAIN det.prev_positions
                    THEN << center[1] - det.prev_positions["pinch"][1],
                            center[2] - det.prev_positions["pinch"][2] >>
                    ELSE <<0, 0>>
    IN  IF distance < pinch_threshold
        THEN [det |-> [det EXCEPT !.prev_positions = Put(@, "pinch", center)],
              result |-> [gesture_type |-> "pinch",
                          position |-> center,
                          movement |-> movement,
                          confidence |-> Max(0, One - (distance * One) \div pinch_threshold)]]
        ELSE [det |-> det, result |-> None]

\* detect_fist keeping its last position under the key detect_pinch uses
detect_fist_pinch_key(det, landmarks) ==
    LET palm_center == landmarks[0 + 1]
        fingertips == << landmarks[4 + 1], landmarks[8 + 1], landmarks[12 + 1],
                         landmarks[16 + 1], landmarks[20 + 1] >>
        avg_distance ==
            SumSeq([i \in 1..Len(fingertips) |-> calculate_distance(palm_center, fingertips[i])])
                \div Len(fingertips)
        center == Centroid(landmarks)
        movement == IF "pinch" \in DOMAIN det.prev_positions
                    THEN << center[1] - det.prev_positions["pinch"][1],
                            center[2] - det.prev_positions["pinch"][2] >>
                    ELSE <<0, 0>>
    IN  IF avg_distance < fist_threshold
        THEN [det |-> [det EXCEPT !.prev_positions = Put(@, "pinch", center)],
              result |-> [gesture_type |-> "fist",
                          position |-> center,
                          movement |-> movement,
                          confidence |-> Max(0, One - (avg_distance * One) \div fist_threshold)]]
        ELSE [det |-> det, result |-> None]

detect_fist(det, landmarks) ==
    LET palm_center == landmarks[0 + 1]
        fingertips == << landmarks[4 + 1], landmarks[8 + 1], landmarks[12 + 1],
                         landmarks[16 + 1], landmarks[20 + 1] >>
        total_distance ==
            SumSeq([i \in 1..Len(fingertips) |-> calculate_distance(palm_center, fingertips[i])])
        avg_distance == total_distance \div Len(fingertips)
        center == Centroid(landmarks)
        movement == IF "fist" \in DOMAIN det.prev_positions
                    THEN << center[1] - det.prev_positions["fist"][1],
                            center[2] - det.prev_positions["fist"][2] >>
                    ELSE <<0, 0>>
    IN  IF avg_distance < fist_threshold
        THEN [det |-> [det EXCEPT !.prev_positions = Put(@, "fist", center)],
              result |-> [gesture_type |-> "fist",
                          position |-> center,
                          movement |-> movement,
                          confidence |-> Max(0, One - (avg_distance * One) \div fist_threshold)]]
        ELSE [det |-> det, result |-> None]

\* detect_two_hand_zoom taking 1.0 as the previous distance when none is stored
detect_two_hand_zoom_default_prev(det, left_landmarks, right_landmarks) ==
    LET left_center == Centroid(left_landmarks)
        right_center == Centroid(right_landmarks)
        current_distance == calculate_distance(left_center, right_center)
        prev_distance == Get(det.prev_positions, "two_hand_distance", One)
        ratio == (current_distance * One) \div prev_distance
        zoom_factor ==
            IF prev_distance > 0
            THEN IF Abs(ratio - One) < zoom_threshold THEN One ELSE ratio
            ELSE One
    IN  [det |-> [det EXCEPT !.prev_positions = Put(@, "two_hand_distance", current_distance)],
         result |-> [gesture_type |-> "two_hand_zoom",
                     zoom_factor |-> zoom_factor,
                     left_position |-> left_center,
                     right_position |-> right_center,
                     distance |-> current_distance]]

\* detect_two_hand_zoom without the jitter snap
detect_two_hand_zoom_unsnapped(det, left_landmarks, right_landmarks) ==
    LET left_center == Centroid(left_landmarks)
        right_center == Centroid(right_landmarks)
        current_distance == calculate_distance(left_center, right_center)
        has_prev == "two_hand_distance" \in DOMAIN det.prev_positions
        prev_distance == det.prev_positions["two_hand_distance"]
        ratio == (current_distance * One) \div prev_distance
        zoom_factor == IF has_prev /\ prev_distance > 0 THEN ratio ELSE One
    IN  [det |-> [det EXCEPT !.prev_positions = Put(@, "two_hand_distance", current_distance)],
         result |-> [gesture_type |-> "two_hand_zoom",
                     zoom_factor |-> zoom_factor,
                     left_position |-> left_center,
                     right_position |-> right_center,
                     distance |-> current_distance]]

\* detect_two_hand_zoom measuring how far the second hand is to the right of the first
detect_two_hand_zoom_signed(det, left_landmarks, right_landmarks) ==
    LET left_center == Centroid(left_landmarks)
        right_center == Centroid(right_landmarks)
        current_distance == right_center[1] - left_center[1]
        has_prev == "two_hand_distance" \in DOMAIN det.prev_positions
        prev_distance == det.prev_positions["two_hand_distance"]
        ratio == (current_distance * One) \div prev_distance
        zoom_factor ==
            IF has_prev /\ prev_distance > 0
            THEN IF Abs(ratio - One) < zoom_threshold THEN One ELSE ratio
            ELSE One
    IN  [det |-> [det EXCEPT !.prev_positions = Put(@, "two_hand_distance", current_distance)],
         result |-> [gesture_type |-> "two_hand_zoom",
                     zoom_factor |-> zoom_factor,
                     left_position |-> left_center,
                     right_position |-> right_center,
                     distance |-> current_distance]]

\* detect_two_hand_zoom keeping the cached distance of a frame it snaps
detect_two_hand_zoom_keeping_cache(det, left_landmarks, right_landmarks) ==
    LET left_center == Centroid(left_landmarks)
        right_center == Centroid(right_landmarks)
        current_distance == calculate_distance(left_center, right_center)
        has_prev == "two_hand_distance" \in DOMAIN det.prev_positions
        prev_distance == det.prev_positions["two_hand_distance"]
        ratio == (current_distance * One) \div prev_distance
        snapped == has_prev /\ prev_distance > 0 /\ Abs(ratio - One) < zoom_threshold
        zoom_factor == IF has_prev /\ prev_distance > 0 /\ ~snapped THEN ratio ELSE One
    IN  [det |-> IF snapped THEN det
                 ELSE [det EXCEPT !.prev_positions =
                                     Put(@, "two_hand_distance", current_distance)],
         result |-> [gesture_type |-> "two_hand_zoom",
                     zoom_factor |-> zoom_factor,
                     left_position |-> left_center,
                     right_position |-> right_center,
                     distance |-> current_distance]]

\* detect_two_hand_zoom with a snap narrower than the gate of detect_gestures
detect_two_hand_zoom_narrow_snap(det, left_landmarks, right_landmarks) ==
    LET left_center == Centroid(left_landmarks)
        right_center == Centroid(right_landmarks)
        current_distance == calculate_distance(left_center, right_center)
        has_prev == "two_hand_distance" \in DOMAIN det.prev_positions
        prev_distance == det.prev_positions["two_hand_distance"]
        ratio == (current_distance * One) \div prev_distance
        zoom_factor ==
            IF has_prev /\ prev_distance > 0
            THEN IF Abs(ratio - One) < 20 THEN One ELSE ratio
            ELSE One
    IN  [det |-> [det EXCEPT !.prev_positions = Put(@, "two_hand_distance", current_distance)],
         result |-> [gesture_type |-> "two_hand_zoom",
                     zoom_factor |-> zoom_factor,
                     left_position |-> left_center,
                     right_position |-> right_center,
                     distance |-> current_distance]]

detect_two_hand_zoom(det, left_landmarks, right_landmarks) ==
    LET left_center == Centroid(left_landmarks)
        right_center == Centroid(right_landmarks)
        current_distance == calculate_distance(left_center, right_center)
        has_prev == "two_hand_distance" \in DOMAIN det.prev_positions
        prev_distance == det.prev_positions["two_hand_distance"]
        ratio == (current_distance * One) \div prev_distance
        zoom_factor ==
            IF has_prev /\ prev_distance > 0
            THEN IF Abs(ratio - One) < zoom_threshold THEN One ELSE ratio
            ELSE One
    IN  [det |-> [det EXCEPT !.prev_positions = Put(@, "two_hand_distance", current_distance)],
         result |-> [gesture_type |-> "two_hand_zoom",
                     zoom_factor |-> zoom_factor,
                     left_position |-> left_center,
                     right_position |-> right_center,
                     distance |-> current_distance]]

NoGesture == [gesture_type |-> "none"]

\* detect_gestures trying the fist before the pinch
detect_gestures_fist_first(det, f) ==
    LET hands == f.hands
        zoom_gesture == detect_two_hand_zoom(det, hands[1], hands[2])
    IN  IF Len(hands) = 0
        THEN [det |-> det, result |-> NoGesture]
        ELSE IF Len(hands) = 1
        THEN IF Truthy(detect_fist(det, hands[1]).result) THEN detect_fist(det, hands[1])
             ELSE IF Truthy(detect_pinch(det, hands[1]).result) THEN detect_pinch(det, hands[1])
             ELSE [det |-> det, result |-> NoGesture]
        ELSE IF Abs(zoom_gesture.result.zoom_factor - One) > 50
             THEN zoom_gesture
             ELSE [det |-> zoom_gesture.det, result |-> NoGesture]

\* detect_gestures forgetting the tracked positions when no hand is seen
detect_gestures_reset_on_no_hands(det, f) ==
    LET hands == f.hands
        zoom_gesture == detect_two_hand_zoom(det, hands[1], hands[2])
    IN  IF Len(hands) = 0
        THEN [det |-> [det EXCEPT !.prev_positions = EmptyDict], result |-> NoGesture]
        ELSE IF Len(hands) = 1
        THEN IF Truthy(detect_pinch(det, hands[1]).result) THEN detect_pinch(det, hands[1])
             ELSE IF Truthy(detect_fist(det, hands[1]).result) THEN detect_fist(det, hands[1])
             ELSE [det |-> det, result |-> NoGesture]
        ELSE IF Abs(zoom_gesture.result.zoom_factor - One) > 50
             THEN zoom_gesture
             ELSE [det |-> zoom_gesture.det, result |-> NoGesture]

\* detect_gestures on a frame in which the landmark extractor found f.hands;
\* f.extractor_raises: self.hands.process raises
detect_gestures(det, f) ==
    LET hands == f.hands
        num_hands == Len(hands)
        pinch_gesture == detect_pinch(det, hands[1])
        fist_gesture == detect_fist(det, hands[1])
        zoom_gesture == detect_two_hand_zoom(det, hands[1], hands[2])
    IN  IF num_hands = 0
        THEN [det |-> det, result |-> NoGesture]
        ELSE IF num_hands = 1
        THEN IF Truthy(pinch_gesture.result) THEN pinch_gesture
             ELSE IF Truthy(fist_gesture.result) THEN fist_gesture
             ELSE [det |-> det, result |-> NoGesture]
        ELSE IF num_hands = 2
        THEN IF Abs(zoom_gesture.result.zoom_factor - One) > 50
             THEN zoom_gesture
             ELSE [det |-> zoom_gesture.det, result |-> NoGesture]
        ELSE [det |-> det, result |-> NoGesture]


-----------------------------------------------------------------------------
(* OverlayGraphVisualizer *)

\* Nodes of the graph, 0 .. NumNodes - 1, in graph.nodes() order
NumNodes == 3
Nodes == 0..(NumNodes - 1)
RECURSIVE NodeOrderUpTo(_)
NodeOrderUpTo(n) == IF n < 0 THEN <<>> ELSE Append(NodeOrderUpTo(n - 1), n)
NodeOrder == NodeOrderUpTo(NumNodes - 1)

\* selected_node = None
NoNode == -1
\* the (-1000, -1000) off-screen marker
OffScreen == <<-1000, -1000>>

fov == 60
drag_sensitivity == 100
rotate_sensitivity == 2
\* np.pi / 2 in 1/100000 rad
HalfPi == 157080
DefaultCameraPos == <<0, 0, 8 * 10^5>>
DefaultZoom == 1500

\* Integer division rounding toward zero, as Python's int() does
TruncDiv(a, b) == IF a >= 0 THEN a \div b ELSE -((-a) \div b)

\* sin of x (1/1000 rad, |x| <= pi/2) in 1/1000: the Taylor polynomial to x^7
SinPoly(x) ==
    LET m == Abs(x)
        x2 == (m * m) \div One
        x3 == (x2 * m) \div One
        x5 == (x3 * x2) \div One
        x7 == (x5 * x2) \div One
        v == Min(One, m - (x3 \div 6) + (x5 \div 120) - (x7 \div 5040))
    IN  IF x < 0 THEN -v ELSE v

\* np.sin and np.cos of an angle a in 1/100000 rad, in 1/1000
Sin(a) ==
    LET y == (((a \div 100) + 3142) % 6283) - 3142
    IN  IF y > 1571 THEN SinPoly(3142 - y)
        ELSE IF y < -1571 THEN SinPoly(-3142 - y)
        ELSE SinPoly(y)
Cos(a) == Sin(a + HalfPi)

\* screen_height / (2 * np.tan(np.radians(fov / 2))) in 1/100 pixel;
\* 1 / (2 tan 30 deg) = 0.86603
FocalLength(screen_height) == (screen_height * 86603) \div One

\* _project_3d_to_2d: rotation_y @ rotation_x @ point_3d - camera_pos
RelativePos(viz, point_3d) ==
    LET cos_y == Cos(viz.rotation_y)
        sin_y == Sin(viz.rotation_y)
        cos_x == Cos(viz.rotation_x)
        sin_x == Sin(viz.rotation_x)
        \* rotation_x @ point_3d
        x1 == point_3d[1]
        y1 == TruncDiv(cos_x * point_3d[2] - sin_x * point_3d[3], One)
        z1 == TruncDiv(sin_x * point_3d[2] + cos_x * point_3d[3], One)
        \* rotation_y @ (rotation_x @ point_3d)
        rotated_point == << TruncDiv(cos_y * x1 + sin_y * z1, One),
                            y1,
                            TruncDiv(cos_y * z1 - sin_y * x1, One) >>
    IN  << rotated_point[1] - viz.camera_pos[1],
           rotated_point[2] - viz.camera_pos[2],
           rotated_point[3] - viz.camera_pos[3] >>

\* _project_3d_to_2d: the perspective projection of a point in front of the camera
Perspective(viz, relative_pos) ==
    LET focal_length == FocalLength(viz.screen_height)
        depth == -relative_pos[3]
        \* focal_length * relative_pos[c] / (-relative_pos[2]) * zoom_factor, in 1/100 pixel
        Offset(c) ==
            TruncDiv(TruncDiv(focal_length * TruncDiv(relative_pos[c] * One, depth), One)
                     * (viz.zoom_factor \div 10), 100)
        screen_x == TruncDiv((viz.screen_width \div 2) * 100 + Offset(1), 100)
        screen_y == TruncDiv((viz.screen_height \div 2) * 100 - Offset(2), 100)
    IN  <<screen_x, screen_y>>

\* _project_3d_to_2d testing only whether the point is behind the camera
_project_3d_to_2d_no_epsilon(viz, point_3d) ==
    LET relative_pos == RelativePos(viz, point_3d)
    IN  IF relative_pos[3] >= 0
        THEN OffScreen
        ELSE Perspective(viz, relative_pos)

_project_3d_to_2d(viz, point_3d) ==
    LET relative_pos == RelativePos(viz, point_3d)
    IN  IF relative_pos[3] >= -(10^4)
        THEN OffScreen
        ELSE Perspective(viz, relative_pos)

_update_screen_positions(viz) ==
    [viz EXCEPT !.node_screen_positions =
        [node \in Nodes |-> _project_3d_to_2d(viz, viz.node_positions[node])]]

OnScreen(viz, pos) ==
    /\ 0 <= pos[1] /\ pos[1] < viz.screen_width
    /\ 0 <= pos[2] /\ pos[2] < viz.screen_height

\* draw_graph_on_frame: the frame is 640 x 480 (cap.set in run_camera_loop)
draw_graph_on_frame(viz) == _update_screen_positions(viz)

\* _draw_edges drawing an edge whose first endpoint is on screen
_draw_edges_first_endpoint(viz) ==
    LET pos(node) == Get(viz.node_screen_positions, node, OffScreen)
        Drawn(edge) == OnScreen(viz, pos(edge[1]))
    IN  SelectSeq(viz.edge_data, Drawn)

\* _draw_edges: the edges a line is drawn for, in the order they are drawn
_draw_edges(viz) ==
    LET pos(node) == Get(viz.node_screen_positions, node, OffScreen)
        Drawn(edge) == OnScreen(viz, pos(edge[1])) /\ OnScreen(viz, pos(edge[2]))
    IN  SelectSeq(viz.edge_data, Drawn)

\* The square of a up to 2^21 as <<h, l>>, standing for h * 10^6 + l
Square(a) ==
    LET m == Abs(a)
        hi == m \div 1000
        lo == m % 1000
        cross == 2 * hi * lo
        l == (cross % 1000) * 1000 + lo * lo
    IN  << hi * hi + (cross \div 1000) + (l \div 10^6), l % 10^6 >>

\* np.linalg.norm(v) squared, as <<h, l>>
SquaredNorm(v) ==
    LET a == Square(v[1])
        b == Square(v[2])
        c == Square(v[3])
        l == a[2] + b[2] + c[2]
    IN  << a[1] + b[1] + c[1] + (l \div 10^6), l % 10^6 >>

Farther(d1, d2) == d1[1] > d2[1] \/ (d1[1] = d2[1] /\ d1[2] > d2[2])

\* _draw_nodes: dist = np.linalg.norm(pos_3d - self.camera_pos), squared
CameraDistance(viz, node) ==
    LET pos_3d == viz.node_positions[node]
    IN  SquaredNorm(<< pos_3d[1] - viz.camera_pos[1], pos_3d[2] - viz.camera_pos[2],
                       pos_3d[3] - viz.camera_pos[3] >>)

\* list.sort(key, reverse=True): stable, equal keys keep their order
RECURSIVE InsertFarthestFirst(_, _, _)
InsertFarthestFirst(viz, sorted, node) ==
    IF sorted = <<>> THEN <<node>>
    ELSE IF Farther(CameraDistance(viz, node), CameraDistance(viz, Head(sorted)))
    THEN <<node>> \o sorted
    ELSE <<Head(sorted)>> \o InsertFarthestFirst(viz, Tail(sorted), node)

RECURSIVE SortFarthestFirst(_, _)
SortFarthestFirst(viz, nodes) ==
    IF nodes = <<>> THEN <<>>
    ELSE InsertFarthestFirst(viz, SortFarthestFirst(viz, SubSeq(nodes, 1, Len(nodes) - 1)),
                             nodes[Len(nodes)])

\* _draw_nodes: the nodes a circle is drawn for, in the order they are drawn
_draw_nodes(viz) ==
    LET nodes_with_z == SortFarthestFirst(viz, NodeOrder)
        Drawn(node) == OnScreen(viz, Get(viz.node_screen_positions, node, OffScreen))
    IN  SelectSeq(nodes_with_z, Drawn)

\* The loop of find_closest_node considering the nodes that are off the screen too
RECURSIVE ClosestNodeLoopAnyNode(_, _, _, _, _)
ClosestNodeLoopAnyNode(viz, screen_position, order, min_sq, closest_node) ==
    IF order = <<>> THEN closest_node
    ELSE LET node == Head(order)
             node_pos == Get(viz.node_screen_positions, node, OffScreen)
             sq == (node_pos[1] - screen_position[1]) * (node_pos[1] - screen_position[1])
                   + (node_pos[2] - screen_position[2]) * (node_pos[2] - screen_position[2])
         IN  IF (min_sq = -1 \/ sq < min_sq) /\ sq < 50 * 50
             THEN ClosestNodeLoopAnyNode(viz, screen_position, Tail(order), sq, node)
             ELSE ClosestNodeLoopAnyNode(viz, screen_position, Tail(order), min_sq, closest_node)

\* The loop of find_closest_node over `order`, from (min_distance, closest_node);
\* distances are compared by their squares (-1: float('inf'))
RECURSIVE ClosestNodeLoop(_, _, _, _, _)
ClosestNodeLoop(viz, screen_position, order, min_sq, closest_node) ==
    IF order = <<>> THEN closest_node
    ELSE LET node == Head(order)
             node_pos == Get(viz.node_screen_positions, node, OffScreen)
             sq == (node_pos[1] - screen_position[1]) * (node_pos[1] - screen_position[1])
                   + (node_pos[2] - screen_position[2]) * (node_pos[2] - screen_position[2])
         IN  IF /\ OnScreen(viz, node_pos)
                /\ (min_sq = -1 \/ sq < min_sq)
                /\ sq < 50 * 50
             THEN ClosestNodeLoop(viz, screen_position, Tail(order), sq, node)
             ELSE ClosestNodeLoop(viz, screen_position, Tail(order), min_sq, closest_node)

find_closest_node(viz, screen_position) ==
    ClosestNodeLoop(viz, screen_position, NodeOrder, -1, NoNode)

\* drag_node without the 0.01 scale of the movement
drag_node_unscaled(viz, gesture_position, movement) ==
    LET screen_x == TruncDiv(gesture_position[1] * viz.screen_width, One)
        screen_y == TruncDiv(gesture_position[2] * viz.screen_height, One)
        closest_node == find_closest_node(viz, <<screen_x, screen_y>>)
        p == viz.node_positions[closest_node]
    IN  IF movement[1] = 0 /\ movement[2] = 0 THEN viz
        ELSE IF closest_node # NoNode
        THEN [viz EXCEPT !.selected_node = closest_node,
                         !.node_positions[closest_node] =
                             << p[1] + movement[1] * drag_sensitivity * 100,
                                p[2] - movement[2] * drag_sensitivity * 100,
                                p[3] >>]
        ELSE viz

\* drag_node selecting the node under a pinch that has not moved
drag_node_selecting_on_touch(viz, gesture_position, movement) ==
    LET screen_x == TruncDiv(gesture_position[1] * viz.screen_width, One)
        screen_y == TruncDiv(gesture_position[2] * viz.screen_height, One)
        closest_node == find_closest_node(viz, <<screen_x, screen_y>>)
        movement_3d == << movement[1] * drag_sensitivity,
                          -movement[2] * drag_sensitivity,
                          0 >>
        p == viz.node_positions[closest_node]
    IN  IF closest_node # NoNode
        THEN [viz EXCEPT !.selected_node = closest_node,
                         !.node_positions[closest_node] =
                             << p[1] + movement_3d[1], p[2] + movement_3d[2],
                                p[3] + movement_3d[3] >>]
        ELSE viz

\* drag_node moving the node in depth as well
drag_node_in_depth(viz, gesture_position, movement) ==
    LET screen_x == TruncDiv(gesture_position[1] * viz.screen_width, One)
        screen_y == TruncDiv(gesture_position[2] * viz.screen_height, One)
        closest_node == find_closest_node(viz, <<screen_x, screen_y>>)
        movement_3d == << movement[1] * drag_sensitivity,
                          -movement[2] * drag_sensitivity,
                          movement[1] * drag_sensitivity >>
        p == viz.node_positions[closest_node]
    IN  IF movement[1] = 0 /\ movement[2] = 0 THEN viz
        ELSE IF closest_node # NoNode
        THEN [viz EXCEPT !.selected_node = closest_node,
                         !.node_positions[closest_node] =
                             << p[1] + movement_3d[1], p[2] + movement_3d[2],
                                p[3] + movement_3d[3] >>]
        ELSE viz

drag_node(viz, gesture_position, movement) ==
    LET screen_x == TruncDiv(gesture_position[1] * viz.screen_width, One)
        screen_y == TruncDiv(gesture_position[2] * viz.screen_height, One)
        closest_node == find_closest_node(viz, <<screen_x, screen_y>>)
        movement_3d == << movement[1] * drag_sensitivity,
                          -movement[2] * drag_sensitivity,
                          0 >>
        p == viz.node_positions[closest_node]
    IN  IF movement[1] = 0 /\ movement[2] = 0 THEN viz
        ELSE IF closest_node # NoNode
        THEN [viz EXCEPT !.selected_node = closest_node,
                         !.node_positions[closest_node] =
                             << p[1] + movement_3d[1], p[2] + movement_3d[2],
                                p[3] + movement_3d[3] >>]
        ELSE viz

\* rotate_graph without the clamp of rotation_x
rotate_graph_unclamped(viz, movement) ==
    IF movement[1] = 0 /\ movement[2] = 0 THEN viz
    ELSE [viz EXCEPT !.rotation_y = @ + movement[1] * rotate_sensitivity,
                     !.rotation_x = @ + movement[2] * rotate_sensitivity]

\* rotate_graph keeping rotation_y within (-pi, pi]
rotate_graph_wrapping(viz, movement) ==
    IF movement[1] = 0 /\ movement[2] = 0 THEN viz
    ELSE [viz EXCEPT !.rotation_y =
                         ((@ + movement[1] * rotate_sensitivity + 2 * HalfPi) % (4 * HalfPi))
                         - 2 * HalfPi,
                     !.rotation_x =
                         Max(-HalfPi, Min(HalfPi, @ + movement[2] * rotate_sensitivity))]

rotate_graph(viz, movement) ==
    IF movement[1] = 0 /\ movement[2] = 0 THEN viz
    ELSE [viz EXCEPT !.rotation_y = @ + movement[1] * rotate_sensitivity,
                     !.rotation_x =
                         Max(-HalfPi, Min(HalfPi, @ + movement[2] * rotate_sensitivity))]

\* zoom_graph taking the ratio as the new zoom instead of scaling by it
zoom_graph_setting(viz, zoom_factor) ==
    IF Abs(zoom_factor - One) < 50 THEN viz
    ELSE [viz EXCEPT !.zoom_factor = Max(200, Min(5000, zoom_factor))]

\* zoom_graph without the clamp of the zoom levels
zoom_graph_unclamped(viz, zoom_factor) ==
    IF Abs(zoom_factor - One) < 50 THEN viz
    ELSE [viz EXCEPT !.zoom_factor = (@ * zoom_factor) \div One]

zoom_graph(viz, zoom_factor) ==
    IF Abs(zoom_factor - One) < 50 THEN viz
    ELSE [viz EXCEPT !.zoom_factor = Max(200, Min(5000, (@ * zoom_factor) \div One))]

\* reset_camera leaving the zoom as it is
reset_camera_keeps_zoom(viz) ==
    [viz EXCEPT !.camera_pos = DefaultCameraPos,
                !.rotation_x = 0,
                !.rotation_y = 0,
                !.selected_node = NoNode]

reset_camera(viz) ==
    [viz EXCEPT !.camera_pos = DefaultCameraPos,
                !.rotation_x = 0,
                !.rotation_y = 0,
                !.zoom_factor = DefaultZoom,
                !.selected_node = NoNode]

\* The layouts nx.spring_layout may return, scaled as _create_sample_graph does
\* ((x - 0.5) * 3, (y - 0.5) * 3, (z - 0.5) * 2), in 1/100000
SampleLayout ==
    [node \in Nodes |-> << -201000 + node * 90000, 120600 - node * 70000,
                           (node % 3) * 40000 - 40000 >>]
\* Nodes at the left edge of the screen: node 0 just off it, the others on it
EdgeLayout ==
    [node \in Nodes |-> << CASE node = 0 -> -420000
                              [] node = 1 -> -360000
                              [] OTHER -> -400000 + (node - 2) * 10000,
                            0, 0 >>]
Layouts ==
    { SampleLayout,
      [node \in Nodes |-> << -201000 + node * 5000, 120600, node * 60000 >>],
      EdgeLayout }

\* random_geometric_graph's edges: a path through the nodes
SampleEdges == [i \in 1..(NumNodes - 1) |-> <<i - 1, i>>]

\* OverlayGraphVisualizer.__init__ with _create_sample_graph
OverlayGraphVisualizerInit(layout) ==
    [node_positions |-> layout,
     node_screen_positions |-> EmptyDict,
     edge_data |-> SampleEdges,
     camera_pos |-> DefaultCameraPos,
     zoom_factor |-> DefaultZoom,
     rotation_x |-> 0,
     rotation_y |-> 0,
     screen_width |-> 640,
     screen_height |-> 480,
     selected_node |-> NoNode]

-----------------------------------------------------------------------------
(* Text: a Python str is the sequence of its characters *)

UpperCase == <<"A", "B", "C", "D", "E", "F", "G", "H", "I", "J", "K", "L", "M",
               "N", "O", "P", "Q", "R", "S", "T", "U", "V", "W", "X", "Y", "Z">>
LowerCase == <<"a", "b", "c", "d", "e", "f", "g", "h", "i", "j", "k", "l", "m",
               "n", "o", "p", "q", "r", "s", "t", "u", "v", "w", "x", "y", "z">>

\* str.lower()
Lower(text) ==
    [i \in 1..Len(text) |->
        IF \E k \in 1..26 : UpperCase[k] = text[i]
        THEN LowerCase[CHOOSE k \in 1..26 : UpperCase[k] = text[i]]
        ELSE text[i]]

\* str.strip()
RECURSIVE StripLeft(_)
StripLeft(text) ==
    IF text # <<>> /\ Head(text) = " " THEN StripLeft(Tail(text)) ELSE text
RECURSIVE StripRight(_)
StripRight(text) ==
    IF text # <<>> /\ text[Len(text)] = " "
    THEN StripRight(SubSeq(text, 1, Len(text) - 1)) ELSE text
Strip(text) == StripRight(StripLeft(text))

\* word in text
Contains(text, word) ==
    \E i \in 1..(Len(text) - Len(word) + 1) : SubSeq(text, i, i + Len(word) - 1) = word

W_rotate == <<"r", "o", "t", "a", "t", "e">>
W_rotation == <<"r", "o", "t", "a", "t", "i", "o", "n">>
W_drag == <<"d", "r", "a", "g">>
W_move == <<"m", "o", "v", "e">>
W_zoom == <<"z", "o", "o", "m">>
W_scale == <<"s", "c", "a", "l", "e">>
W_reset == <<"r", "e", "s", "e", "t">>
W_center == <<"c", "e", "n", "t", "e", "r">>
W_home == <<"h", "o", "m", "e">>
W_mode == <<"m", "o", "d", "e">>
W_view == <<"v", "i", "e", "w">>
P_rotate_mode == <<"r", "o", "t", "a", "t", "e", " ", "m", "o", "d", "e">>
P_rotation_mode == <<"r", "o", "t", "a", "t", "i", "o", "n", " ", "m", "o", "d", "e">>
P_drag_mode == <<"d", "r", "a", "g", " ", "m", "o", "d", "e">>
P_dragging_mode == <<"d", "r", "a", "g", "g", "i", "n", "g", " ", "m", "o", "d", "e">>
P_zoom_mode == <<"z", "o", "o", "m", " ", "m", "o", "d", "e">>
P_zooming_mode == <<"z", "o", "o", "m", "i", "n", "g", " ", "m", "o", "d", "e">>
P_reset_view == <<"r", "e", "s", "e", "t", " ", "v", "i", "e", "w">>
P_reset_camera == <<"r", "e", "s", "e", "t", " ", "c", "a", "m", "e", "r", "a">>
P_center_view == <<"c", "e", "n", "t", "e", "r", " ", "v", "i", "e", "w">>

-----------------------------------------------------------------------------
(* VoiceController *)

\* self.commands, in insertion order: <<phrase, action>>
commands ==
    << <<P_rotate_mode, "rotate_mode">>, <<P_rotation_mode, "rotate_mode">>,
       <<P_drag_mode, "drag_mode">>, <<P_dragging_mode, "drag_mode">>,
       <<P_zoom_mode, "zoom_mode">>, <<P_zooming_mode, "zoom_mode">>,
       <<P_reset_view, "reset_view">>, <<P_reset_camera, "reset_view">>,
       <<P_center_view, "reset_view">> >>

\* Python None where a str is expected
NoCommand == <<"None">>

\* _process_command: the phrase matched (not its action), else the phrase of
\* the first keyword group found, else None
_process_command(text) ==
    IF text = <<>> THEN NoCommand
    ELSE IF \E i \in 1..Len(commands) : Contains(text, commands[i][1])
    THEN commands[CHOOSE i \in 1..Len(commands) :
                     /\ Contains(text, commands[i][1])
                     /\ \A j \in 1..(i - 1) : ~Contains(text, commands[j][1])][1]
    ELSE IF Contains(text, W_rotate) \/ Contains(text, W_rotation) THEN P_rotate_mode
    ELSE IF Contains(text, W_drag) \/ Contains(text, W_move) THEN P_drag_mode
    ELSE IF Contains(text, W_zoom) \/ Contains(text, W_scale) THEN P_zoom_mode
    ELSE IF Contains(text, W_reset) \/ Contains(text, W_center) \/ Contains(text, W_home)
    THEN P_reset_view
    ELSE NoCommand

\* listen_for_command with the recognizer's result text `heard`
listen_for_command(heard) ==
    LET text == Strip(heard)
    IN  IF text # <<>> THEN _process_command(Lower(text)) ELSE NoCommand

-----------------------------------------------------------------------------
(* Frames: what the external landmark extractor reports for a camera frame *)

\* Offsets of the 21 landmarks of a hand from its wrist (landmark 0), per pose.
\* Only the five fingertips (4, 8, 12, 16, 20) leave the wrist position.
TipOffsets(pose) ==
    CASE pose = "open" ->
           [t4 |-> <<-100, -100>>, t8 |-> <<-40, -200>>, t12 |-> <<0, -220>>,
            t16 |-> <<40, -200>>, t20 |-> <<80, -160>>]
      [] pose = "pinch" ->
           [t4 |-> <<-50, -190>>, t8 |-> <<-40, -200>>, t12 |-> <<0, -220>>,
            t16 |-> <<40, -200>>, t20 |-> <<80, -160>>]
      [] pose = "pinch_touching" ->
           [t4 |-> <<-40, -200>>, t8 |-> <<-40, -200>>, t12 |-> <<0, -220>>,
            t16 |-> <<40, -200>>, t20 |-> <<80, -160>>]
      [] pose = "pinch_at_threshold" ->
           [t4 |-> <<-90, -200>>, t8 |-> <<-40, -200>>, t12 |-> <<0, -220>>,
            t16 |-> <<40, -200>>, t20 |-> <<80, -160>>]
      [] pose = "fist" ->
           [t4 |-> <<-40, -30>>, t8 |-> <<40, -30>>, t12 |-> <<0, -60>>,
            t16 |-> <<20, -50>>, t20 |-> <<40, -40>>]
      [] pose = "pinching_fist" ->
           [t4 |-> <<-10, -30>>, t8 |-> <<10, -30>>, t12 |-> <<0, -60>>,
            t16 |-> <<20, -50>>, t20 |-> <<40, -40>>]

LandmarkOffset(pose, i) ==
    LET t == TipOffsets(pose)
    IN  CASE i = 4 -> t.t4 [] i = 8 -> t.t8 [] i = 12 -> t.t12
          [] i = 16 -> t.t16 [] i = 20 -> t.t20 [] OTHER -> <<0, 0>>

\* The keypoint set (21 normalized points) of a hand in `pose` with its wrist at `at`
Hand(pose, at) ==
    [i \in 1..21 |-> << at[1] + LandmarkOffset(pose, i - 1)[1],
                        at[2] + LandmarkOffset(pose, i - 1)[2] >>]

Poses == {"open", "pinch", "pinch_touching", "pinch_at_threshold", "fist", "pinching_fist"}
WristPositions == {<<300, 500>>, <<350, 520>>}

FrameOf(hands) == [extractor_raises |-> FALSE, hands |-> hands]
NoHandsFrame == FrameOf(<<>>)
OneHandFrames == {FrameOf(<<Hand(p, at)>>) : p \in Poses, at \in WristPositions}
\* Second hand at 0, 200, 206 (ratio 1.03), 216 (1.08), 228 (1.14; 1.056 from
\* 216), 240 (1.2; 1.053 from 228) from the first
SecondWristPositions ==
    {<<300, 500>>, <<500, 500>>, <<506, 500>>, <<516, 500>>, <<528, 500>>, <<540, 500>>}
TwoHandFrames ==
    {FrameOf(<<Hand("open", <<300, 500>>), Hand("open", at)>>) : at \in SecondWristPositions}
\* Two different hands, the extractor listing them in either order
MixedTwoHandFrames ==
    { FrameOf(<<Hand("fist", <<300, 500>>), Hand("open", <<500, 500>>)>>),
      FrameOf(<<Hand("open", <<540, 500>>), Hand("fist", <<300, 500>>)>>) }
RaisingFrame == [extractor_raises |-> TRUE, hands |-> <<>>]

-----------------------------------------------------------------------------
(* State after construction *)

GestureDetectorInit == [prev_positions |-> EmptyDict]

\* `last` names the operation that produced the state
NoOp == [op |-> "none"]

-----------------------------------------------------------------------------
(* The gesture classifier driven frame by frame *)

DetFrames == {NoHandsFrame} \cup OneHandFrames \cup TwoHandFrames \cup MixedTwoHandFrames

InitDet ==
    /\ running = FALSE
    /\ current_mode = "rotate"
    /\ gesture_data = EmptyDict
    /\ voice_commands = <<>>
    /\ graph_visualizer = EmptyDict
    /\ gesture_detector = GestureDetectorInit
    /\ voice_model = FALSE
    /\ frame = NoHandsFrame
    /\ frame_count = 0
    /\ pc = "classifier"
    /\ voice_pc = "off"
    /\ last = NoOp

DetectGestures(f) ==
    LET r == detect_gestures(gesture_detector, f)
    IN  /\ frame' = f
        /\ gesture_detector' = r.det
        /\ gesture_data' = r.result
        /\ last' = [op |-> "detect_gestures", prev_positions |-> gesture_detector.prev_positions]
        /\ UNCHANGED <<running, current_mode, voice_commands, graph_visualizer,
                       voice_model, frame_count, pc, voice_pc>>

NextDet == \E f \in DetFrames : DetectGestures(f)

SpecDet == InitDet /\ [][NextDet]_vars


-----------------------------------------------------------------------------
(* The visualizer driven through its intents, frame by frame: one gesture   *)
(* intent, then resets, then draw_graph_on_frame, as run_camera_loop does   *)

\* Frames the camera loop runs in a checked behaviour
MaxFrames == 2

\* Displacements of any magnitude: (0.1, 0.1), small ones, and far more than a frame wide
VizMovements ==
    { <<0, 0>>, <<100, 100>>, <<50, 0>>, <<-50, 20>>, <<0, 90000>>, <<70000, -90000>>,
      <<200000, 100>> }
DragMovements == {<<0, 0>>, <<50, 0>>, <<-50, 20>>}
VizZoomFactors == {1030, 1200, 500, 4000, 100}
\* Normalized gesture positions: at node 0 of the layouts (on its pixel in the
\* second), on the pixel of node 1 of SampleLayout, and far from every node
DragPositions == {<<255, 305>>, <<365, 417>>, <<900, 900>>}

\* The camera state a step started from, kept in `last`
CameraBefore(viz) == <<viz.camera_pos, viz.rotation_x, viz.rotation_y, viz.zoom_factor>>

VizUnchanged ==
    UNCHANGED <<running, current_mode, gesture_data, voice_commands, gesture_detector,
                voice_model, frame, voice_pc>>

InitViz ==
    /\ running = FALSE
    /\ current_mode = "rotate"
    /\ gesture_data = EmptyDict
    /\ voice_commands = <<>>
    /\ \E layout \in Layouts : graph_visualizer = OverlayGraphVisualizerInit(layout)
    /\ gesture_detector = GestureDetectorInit
    /\ voice_model = FALSE
    /\ frame = NoHandsFrame
    /\ frame_count = 0
    /\ pc = "intent"
    /\ voice_pc = "off"
    /\ last = NoOp

VizIntent(op, args, viz) ==
    /\ pc = "intent"
    /\ frame_count < MaxFrames
    /\ graph_visualizer' = viz
    /\ pc' = "draw"
    /\ last' = [op |-> op, args |-> args, camera_before |-> CameraBefore(graph_visualizer)]
    /\ UNCHANGED frame_count
    /\ VizUnchanged

RotateGraph(movement) ==
    VizIntent("rotate_graph", movement, rotate_graph(graph_visualizer, movement))

ZoomGraph(zoom_factor) ==
    VizIntent("zoom_graph", zoom_factor, zoom_graph(graph_visualizer, zoom_factor))

DragNode(gesture_position, movement) ==
    VizIntent("drag_node", <<gesture_position, movement>>,
              drag_node(graph_visualizer, gesture_position, movement))

ResetCamera ==
    /\ graph_visualizer' = reset_camera(graph_visualizer)
    /\ last' = [op |-> "reset_camera",
                camera_before |-> << graph_visualizer.camera_pos, graph_visualizer.rotation_x,
                                     graph_visualizer.rotation_y, graph_visualizer.zoom_factor >>]
    /\ UNCHANGED <<pc, frame_count>>
    /\ VizUnchanged

DrawGraphOnFrame ==
    /\ pc = "draw"
    /\ graph_visualizer' = draw_graph_on_frame(graph_visualizer)
    /\ pc' = "intent"
    /\ frame_count' = frame_count + 1
    /\ last' = [op |-> "draw_graph_on_frame",
                edges_drawn |-> _draw_edges(graph_visualizer'),
                nodes_drawn |-> _draw_nodes(graph_visualizer')]
    /\ VizUnchanged

NextViz ==
    \/ \E movement \in VizMovements : RotateGraph(movement)
    \/ \E zoom_factor \in VizZoomFactors : ZoomGraph(zoom_factor)
    \/ \E gesture_position \in DragPositions, movement \in DragMovements :
          DragNode(gesture_position, movement)
    \/ ResetCamera
    \/ DrawGraphOnFrame

SpecViz == InitViz /\ [][NextViz]_vars

-----------------------------------------------------------------------------
(* The projection applied to points near and behind the camera: the same    *)
(* intents, from a layout whose nodes lie around the camera's near limit     *)

\* Node 0 at camera-relative depth 0.1, node 1 in front of the camera, node 2
\* behind it (depth -1.0); the camera is at z = 8
NearLayout ==
    [node \in Nodes |-> << 1000 * node, -2000 * node,
                           CASE node = 0 -> 790000
                             [] node = 2 -> 900000
                             [] OTHER -> -40000 * node >>]
\* All nodes just beyond the near limit (depth 0.10001 and more), and all
\* nodes at the camera and behind it
ProjLayouts ==
    { NearLayout,
      [node \in Nodes |-> << 30000 * node, 1000, 789999 - node >>],
      [node \in Nodes |-> << 0, 0, 800000 + node >>] }

InitProj ==
    /\ running = FALSE
    /\ current_mode = "rotate"
    /\ gesture_data = EmptyDict
    /\ voice_commands = <<>>
    /\ \E layout \in ProjLayouts : graph_visualizer = OverlayGraphVisualizerInit(layout)
    /\ gesture_detector = GestureDetectorInit
    /\ voice_model = FALSE
    /\ frame = NoHandsFrame
    /\ frame_count = 0
    /\ pc = "intent"
    /\ voice_pc = "off"
    /\ last = NoOp

SpecProj == InitProj /\ [][NextViz]_vars

-----------------------------------------------------------------------------
(* InteractiveGraphApp *)

Modes == {"rotate", "drag", "zoom"}

\* handle_voice_command turning a reset into a return to the initial mode too
handle_voice_command_reset_mode(mode, viz, command) ==
    LET c == Strip(Lower(command))
    IN  IF Contains(c, W_rotate) /\ Contains(c, W_mode)
        THEN [current_mode |-> "rotate", graph_visualizer |-> viz]
        ELSE IF Contains(c, W_drag) /\ Contains(c, W_mode)
        THEN [current_mode |-> "drag", graph_visualizer |-> viz]
        ELSE IF Contains(c, W_zoom) /\ Contains(c, W_mode)
        THEN [current_mode |-> "zoom", graph_visualizer |-> viz]
        ELSE IF Contains(c, W_reset) /\ Contains(c, W_view)
        THEN [current_mode |-> "rotate", graph_visualizer |-> reset_camera(viz)]
        ELSE [current_mode |-> mode, graph_visualizer |-> viz]

\* handle_voice_command taking the word before "mode" as the mode's name
handle_voice_command_any_mode(mode, viz, command) ==
    LET c == Strip(Lower(command))
    IN  IF Contains(c, W_mode) /\ Contains(c, W_rotate)
        THEN [current_mode |-> "rotate", graph_visualizer |-> viz]
        ELSE IF Contains(c, W_mode) /\ Contains(c, W_rotation)
        THEN [current_mode |-> "rotation", graph_visualizer |-> viz]
        ELSE IF Contains(c, W_drag) /\ Contains(c, W_mode)
        THEN [current_mode |-> "drag", graph_visualizer |-> viz]
        ELSE IF Contains(c, W_zoom) /\ Contains(c, W_mode)
        THEN [current_mode |-> "zoom", graph_visualizer |-> viz]
        ELSE IF Contains(c, W_reset) /\ Contains(c, W_view)
        THEN [current_mode |-> mode, graph_visualizer |-> reset_camera(viz)]
        ELSE [current_mode |-> mode, graph_visualizer |-> viz]

\* handle_voice_command: the mode and the visualizer afterwards
handle_voice_command(mode, viz, command) ==
    LET c == Strip(Lower(command))
    IN  IF Contains(c, W_rotate) /\ Contains(c, W_mode)
        THEN [current_mode |-> "rotate", graph_visualizer |-> viz]
        ELSE IF Contains(c, W_drag) /\ Contains(c, W_mode)
        THEN [current_mode |-> "drag", graph_visualizer |-> viz]
        ELSE IF Contains(c, W_zoom) /\ Contains(c, W_mode)
        THEN [current_mode |-> "zoom", graph_visualizer |-> viz]
        ELSE IF Contains(c, W_reset) /\ Contains(c, W_view)
        THEN [current_mode |-> mode, graph_visualizer |-> reset_camera(viz)]
        ELSE [current_mode |-> mode, graph_visualizer |-> viz]

\* handle_voice_command: the command falls into the final else, "Unknown command"
UnknownCommand(command) ==
    LET c == Strip(Lower(command))
    IN  /\ ~(Contains(c, W_rotate) /\ Contains(c, W_mode))
        /\ ~(Contains(c, W_drag) /\ Contains(c, W_mode))
        /\ ~(Contains(c, W_zoom) /\ Contains(c, W_mode))
        /\ ~(Contains(c, W_reset) /\ Contains(c, W_view))

\* apply_gesture_to_graph dispatching on the gesture kind alone
apply_gesture_ignoring_mode(mode, viz, event) ==
    IF ~Truthy(event) \/ Get(event, "gesture_type", "None") = "none" THEN viz
    ELSE LET gesture_type == Get(event, "gesture_type", "None")
         IN  IF gesture_type = "pinch"
             THEN drag_node(viz, Get(event, "position", <<0, 0>>),
                            Get(event, "movement", <<0, 0>>))
             ELSE IF gesture_type = "fist"
             THEN rotate_graph(viz, Get(event, "movement", <<0, 0>>))
             ELSE IF gesture_type = "two_hand_zoom"
             THEN zoom_graph(viz, Get(event, "zoom_factor", One))
             ELSE viz

\* apply_gesture_to_graph: the visualizer afterwards
apply_gesture_to_graph(mode, viz, event) ==
    IF ~Truthy(event) \/ Get(event, "gesture_type", "None") = "none" THEN viz
    ELSE LET gesture_type == Get(event, "gesture_type", "None")
         IN  IF gesture_type = "pinch" /\ mode = "drag"
             THEN drag_node(viz, Get(event, "position", <<0, 0>>),
                            Get(event, "movement", <<0, 0>>))
             ELSE IF gesture_type = "fist" /\ mode = "rotate"
             THEN rotate_graph(viz, Get(event, "movement", <<0, 0>>))
             ELSE IF gesture_type = "two_hand_zoom" /\ mode = "zoom"
             THEN zoom_graph(viz, Get(event, "zoom_factor", One))
             ELSE viz

\* Keys: cv2.waitKey(1) & 0xFF; 255 when no key is pressed
NoKey == 255
KeyQ == 113
KeyEsc == 27
KeyR == 114
Key1 == 49
Key2 == 50
Key3 == 51
\* A key the loop has no branch for ('x')
KeyX == 120
Keys == {NoKey, KeyQ, KeyEsc, KeyR, Key1, Key2, Key3, KeyX}

\* Commands waiting in voice_commands in a checked behaviour
MaxQueue == 1

\* What the recognizer hears
Transcripts ==
    { <<"D", "r", "a", "g", " ", "M", "o", "d", "e">>, <<"r", "e", "s", "e", "t", " ", "v", "i", "e", "w">>, <<"r", "o", "t", "a", "t", "i", "o", "n", " ", "m", "o", "d", "e">>, <<"h", "e", "l", "l", "o">> }

\* What the camera shows
AppFrames ==
    { NoHandsFrame,
      FrameOf(<<Hand("pinch", <<300, 500>>)>>),
      FrameOf(<<Hand("pinch", <<350, 520>>)>>),
      FrameOf(<<Hand("fist", <<300, 500>>)>>),
      FrameOf(<<Hand("fist", <<350, 520>>)>>),
      FrameOf(<<Hand("open", <<300, 500>>), Hand("open", <<500, 500>>)>>),
      FrameOf(<<Hand("open", <<300, 500>>), Hand("open", <<540, 500>>)>>),
      RaisingFrame }

Init ==
    /\ running = FALSE
    /\ current_mode = "rotate"
    /\ gesture_data = EmptyDict
    /\ voice_commands = <<>>
    /\ graph_visualizer = OverlayGraphVisualizerInit(SampleLayout)
    /\ gesture_detector = GestureDetectorInit
    /\ voice_model \in BOOLEAN
    /\ frame = NoHandsFrame
    /\ frame_count = 0
    /\ pc = "start"
    /\ voice_pc = "off"
    /\ last = NoOp

\* A start that launches the voice thread whether the model is loaded or not
StartVoiceThreadAlways ==
    /\ pc = "start"
    /\ running' = TRUE
    /\ voice_pc' = "test"
    /\ pc' = "loop"
    /\ last' = [op |-> "start"]
    /\ UNCHANGED <<current_mode, gesture_data, voice_commands, graph_visualizer,
                   gesture_detector, voice_model, frame, frame_count>>

\* start: running = True, the voice thread is started if the Vosk model is loaded
Start ==
    /\ pc = "start"
    /\ running' = TRUE
    /\ voice_pc' = IF voice_model THEN "test" ELSE "off"
    /\ pc' = "loop"
    /\ last' = [op |-> "start"]
    /\ UNCHANGED <<current_mode, gesture_data, voice_commands, graph_visualizer,
                   gesture_detector, voice_model, frame, frame_count>>

\* A voice loop that goes on listening whatever the flag says
VoiceLoopIgnoringFlag ==
    /\ voice_pc = "test"
    /\ voice_pc' = "listen"
    /\ UNCHANGED <<running, current_mode, gesture_data, voice_commands, graph_visualizer,
                   gesture_detector, voice_model, frame, frame_count, pc, last>>

\* process_voice_commands: while self.running
VoiceLoopTest ==
    /\ voice_pc = "test"
    /\ voice_pc' = IF running THEN "listen" ELSE "done"
    /\ UNCHANGED <<running, current_mode, gesture_data, voice_commands, graph_visualizer,
                   gesture_detector, voice_model, frame, frame_count, pc, last>>

\* A voice thread that acts on what it hears itself instead of queueing it
VoiceListenHandlingCommand(heard, max) ==
    /\ voice_pc = "listen"
    /\ LET command == listen_for_command(heard)
           r == handle_voice_command(current_mode, graph_visualizer, command)
       IN  IF command # NoCommand
           THEN /\ current_mode' = r.current_mode
                /\ graph_visualizer' = r.graph_visualizer
           ELSE UNCHANGED <<current_mode, graph_visualizer>>
    /\ voice_pc' = "test"
    /\ UNCHANGED <<running, gesture_data, voice_commands, gesture_detector,
                   voice_model, frame, frame_count, pc, last>>

\* process_voice_commands: listen_for_command, then put; a checked behaviour
\* holds at most max waiting commands (queue.Queue() itself has no limit)
VoiceListenUpTo(heard, max) ==
    /\ voice_pc = "listen"
    /\ LET command == listen_for_command(heard)
       IN  IF command # NoCommand
           THEN /\ Len(voice_commands) < max
                /\ voice_commands' = Append(voice_commands, command)
           ELSE UNCHANGED voice_commands
    /\ voice_pc' = "test"
    /\ UNCHANGED <<running, current_mode, gesture_data, graph_visualizer,
                   gesture_detector, voice_model, frame, frame_count, pc, last>>

VoiceListen(heard) == VoiceListenUpTo(heard, MaxQueue)

\* run_camera_loop: while self.running, cap.read() succeeds; at most max
\* frames are read in a checked behaviour
ReadFrameUpTo(f, max) ==
    /\ pc = "loop"
    /\ running
    /\ frame_count < max
    /\ frame' = f
    /\ pc' = "gestures"
    /\ last' = [op |-> "read"]
    /\ UNCHANGED <<running, current_mode, gesture_data, voice_commands, graph_visualizer,
                   gesture_detector, voice_model, frame_count, voice_pc>>

ReadFrame(f) == ReadFrameUpTo(f, MaxFrames)

\* run_camera_loop: cap.read() fails, break
ReadFails ==
    /\ pc = "loop"
    /\ running
    /\ pc' = "stop"
    /\ last' = [op |-> "read_failed"]
    /\ UNCHANGED <<running, current_mode, gesture_data, voice_commands, graph_visualizer,
                   gesture_detector, voice_model, frame, frame_count, voice_pc>>

\* A process_gestures whose failure still dispatches the event kept from an
\* earlier frame
ProcessGesturesDispatchingKept ==
    /\ pc = "gestures"
    /\ IF frame.extractor_raises
       THEN /\ pc' = "apply"
            /\ UNCHANGED <<gesture_detector, gesture_data>>
       ELSE LET r == detect_gestures(gesture_detector, frame)
            IN  /\ gesture_detector' = r.det
                /\ gesture_data' = r.result
                /\ pc' = "apply"
    /\ last' = [op |-> "process_gestures"]
    /\ UNCHANGED <<running, current_mode, voice_commands, graph_visualizer,
                   voice_model, frame, frame_count, voice_pc>>

\* A loop that handles a waiting command before it dispatches the gesture
ProcessGesturesAfterCommand ==
    /\ pc = "gestures"
    /\ IF frame.extractor_raises
       THEN /\ pc' = "commands"
            /\ UNCHANGED <<gesture_detector, gesture_data>>
       ELSE LET r == detect_gestures(gesture_detector, frame)
            IN  /\ gesture_detector' = r.det
                /\ gesture_data' = r.result
                /\ pc' = "apply"
    /\ IF voice_commands # <<>>
       THEN LET h == handle_voice_command(current_mode, graph_visualizer, Head(voice_commands))
            IN  /\ current_mode' = h.current_mode
                /\ graph_visualizer' = h.graph_visualizer
                /\ voice_commands' = Tail(voice_commands)
       ELSE UNCHANGED <<current_mode, graph_visualizer, voice_commands>>
    /\ last' = [op |-> "process_gestures"]
    /\ UNCHANGED <<running, voice_model, frame, frame_count, voice_pc>>

\* process_gestures: the classifier's event is kept in self.gesture_data; an
\* exception of the extractor is caught and None returned (no dispatch)
ProcessGestures ==
    /\ pc = "gestures"
    /\ IF frame.extractor_raises
       THEN /\ pc' = "commands"
            /\ UNCHANGED <<gesture_detector, gesture_data>>
       ELSE LET r == detect_gestures(gesture_detector, frame)
            IN  /\ gesture_detector' = r.det
                /\ gesture_data' = r.result
                /\ pc' = "apply"
    /\ last' = [op |-> "process_gestures"]
    /\ UNCHANGED <<running, current_mode, voice_commands, graph_visualizer,
                   voice_model, frame, frame_count, voice_pc>>

\* apply_gesture_to_graph changing to the mode the gesture belongs to
ApplyGestureSwitchingMode ==
    /\ pc = "apply"
    /\ current_mode' = IF gesture_data.gesture_type = "pinch" THEN "drag" ELSE current_mode
    /\ graph_visualizer' = apply_gesture_to_graph(current_mode', graph_visualizer, gesture_data)
    /\ pc' = "commands"
    /\ last' = [op |-> "apply_gesture_to_graph"]
    /\ UNCHANGED <<running, gesture_data, voice_commands, gesture_detector,
                   voice_model, frame, frame_count, voice_pc>>

\* run_camera_loop: if gesture_data: self.apply_gesture_to_graph(gesture_data)
ApplyGestureToGraph ==
    /\ pc = "apply"
    /\ graph_visualizer' = apply_gesture_to_graph(current_mode, graph_visualizer, gesture_data)
    /\ pc' = "commands"
    /\ last' = [op |-> "apply_gesture_to_graph"]
    /\ UNCHANGED <<running, current_mode, gesture_data, voice_commands, gesture_detector,
                   voice_model, frame, frame_count, voice_pc>>

\* A drain that takes the command enqueued last
HandleNewestVoiceCommand ==
    /\ pc = "commands"
    /\ voice_commands # <<>>
    /\ LET command == voice_commands[Len(voice_commands)]
           r == handle_voice_command(current_mode, graph_visualizer, command)
       IN  /\ current_mode' = r.current_mode
           /\ graph_visualizer' = r.graph_visualizer
           /\ last' = [op |-> "handle_voice_command", command |-> command,
                       queue |-> voice_commands]
    /\ voice_commands' = SubSeq(voice_commands, 1, Len(voice_commands) - 1)
    /\ UNCHANGED <<running, gesture_data, gesture_detector, voice_model, frame,
                   frame_count, pc, voice_pc>>

\* run_camera_loop: one turn of "while not self.voice_commands.empty()"
HandleVoiceCommand ==
    /\ pc = "commands"
    /\ voice_commands # <<>>
    /\ LET command == Head(voice_commands)
           r == handle_voice_command(current_mode, graph_visualizer, command)
       IN  /\ current_mode' = r.current_mode
           /\ graph_visualizer' = r.graph_visualizer
           /\ last' = IF r.graph_visualizer # graph_visualizer
                         \/ (Contains(command, W_reset) /\ Contains(command, W_view))
                      THEN [op |-> "reset_camera", by |-> "voice",
                            camera_before |-> CameraBefore(graph_visualizer),
                            queue |-> voice_commands]
                      ELSE [op |-> "handle_voice_command", command |-> command,
                            queue |-> voice_commands]
    /\ voice_commands' = Tail(voice_commands)
    /\ UNCHANGED <<running, gesture_data, gesture_detector, voice_model, frame,
                   frame_count, pc, voice_pc>>

\* run_camera_loop: the queue is empty, draw_graph_on_frame
DrawFrame ==
    /\ pc = "commands"
    /\ voice_commands = <<>>
    /\ graph_visualizer' = draw_graph_on_frame(graph_visualizer)
    /\ pc' = "key"
    /\ last' = [op |-> "draw_graph_on_frame"]
    /\ UNCHANGED <<running, current_mode, gesture_data, voice_commands, gesture_detector,
                   voice_model, frame, frame_count, voice_pc>>

\* A key handling whose 'r' goes back to rotate mode as well
HandleKeyResettingMode(k) ==
    /\ pc = "key"
    /\ IF k = KeyQ \/ k = KeyEsc
       THEN /\ pc' = "stop"
            /\ last' = [op |-> "key", key |-> k]
            /\ UNCHANGED <<current_mode, graph_visualizer, frame_count>>
       ELSE /\ pc' = "loop"
            /\ frame_count' = frame_count + 1
            /\ IF k = KeyR
               THEN /\ graph_visualizer' = reset_camera(graph_visualizer)
                    /\ last' = [op |-> "reset_camera", by |-> "key",
                                camera_before |-> CameraBefore(graph_visualizer)]
                    /\ current_mode' = "rotate"
               ELSE /\ current_mode' = IF k = Key1 THEN "rotate"
                                       ELSE IF k = Key2 THEN "drag"
                                       ELSE IF k = Key3 THEN "zoom"
                                       ELSE current_mode
                    /\ last' = [op |-> "key", key |-> k]
                    /\ UNCHANGED graph_visualizer
    /\ UNCHANGED <<running, gesture_data, voice_commands, gesture_detector,
                   voice_model, frame, voice_pc>>

\* run_camera_loop: key = cv2.waitKey(1) & 0xFF and its handling
HandleKey(k) ==
    /\ pc = "key"
    /\ IF k = KeyQ \/ k = KeyEsc
       THEN /\ pc' = "stop"
            /\ last' = [op |-> "key", key |-> k]
            /\ UNCHANGED <<current_mode, graph_visualizer, frame_count>>
       ELSE /\ pc' = "loop"
            /\ frame_count' = frame_count + 1
            /\ IF k = KeyR
               THEN /\ graph_visualizer' = reset_camera(graph_visualizer)
                    /\ last' = [op |-> "reset_camera", by |-> "key",
                                camera_before |-> CameraBefore(graph_visualizer)]
                    /\ UNCHANGED current_mode
               ELSE /\ current_mode' = IF k = Key1 THEN "rotate"
                                       ELSE IF k = Key2 THEN "drag"
                                       ELSE IF k = Key3 THEN "zoom"
                                       ELSE current_mode
                    /\ last' = [op |-> "key", key |-> k]
                    /\ UNCHANGED graph_visualizer
    /\ UNCHANGED <<running, gesture_data, voice_commands, gesture_detector,
                   voice_model, frame, voice_pc>>

\* stop, after the loop has ended
Stop ==
    /\ pc = "stop"
    /\ running' = FALSE
    /\ pc' = "done"
    /\ last' = [op |-> "stop"]
    /\ UNCHANGED <<current_mode, gesture_data, voice_commands, graph_visualizer,
                   gesture_detector, voice_model, frame, frame_count, voice_pc>>

Next ==
    \/ Start
    \/ VoiceLoopTest
    \/ \E heard \in Transcripts : VoiceListen(heard)
    \/ \E f \in AppFrames : ReadFrame(f)
    \/ ReadFails
    \/ ProcessGestures
    \/ ApplyGestureToGraph
    \/ HandleVoiceCommand
    \/ DrawFrame
    \/ \E k \in Keys : HandleKey(k)
    \/ Stop

Spec == Init /\ [][Next]_vars

-----------------------------------------------------------------------------
(* The same loop over more frames, with the few inputs a drag needs: a      *)
(* fist that moves, a pinch that moves, the keys 'r' and '2'                *)

\* Frames read in a checked behaviour of SpecDrag
MaxDragFrames == 4

\* What the camera shows
DragFrames ==
    { FrameOf(<<Hand("pinch", <<300, 500>>)>>),
      FrameOf(<<Hand("pinch", <<350, 520>>)>>),
      FrameOf(<<Hand("fist", <<100, 500>>)>>),
      FrameOf(<<Hand("fist", <<900, 500>>)>>) }

\* What the recognizer hears
DragTranscripts == { <<"D", "r", "a", "g", " ", "M", "o", "d", "e">> }

\* The keys pressed
DragKeys == {NoKey, KeyR, Key2, KeyQ}

NextDrag ==
    \/ Start
    \/ VoiceLoopTest
    \/ \E heard \in DragTranscripts : VoiceListen(heard)
    \/ \E f \in DragFrames : ReadFrameUpTo(f, MaxDragFrames)
    \/ ReadFails
    \/ ProcessGestures
    \/ ApplyGestureToGraph
    \/ HandleVoiceCommand
    \/ DrawFrame
    \/ \E k \in DragKeys : HandleKey(k)
    \/ Stop

SpecDrag == Init /\ [][NextDrag]_vars

-----------------------------------------------------------------------------
(* The voice path end to end: the same threads, with many transcripts and   *)
(* few frames and keys                                                      *)

\* Transcripts containing one exact phrase of the spec's phrase table, in any letter case
PhraseTranscripts ==
    { <<"R", "o", "t", "a", "t", "e", " ", "M", "o", "d", "e">>,
      <<"D", "R", "A", "G", " ", "M", "O", "D", "E">>,
      <<"g", "o", " ", "t", "o", " ", "z", "o", "o", "m", " ", "m", "o", "d", "e">>,
      <<"R", "e", "s", "e", "t", " ", "V", "i", "e", "w">>,
      <<"R", "e", "s", "e", "t", " ", "C", "a", "m", "e", "r", "a">>,
      <<"C", "E", "N", "T", "E", "R", " ", "V", "I", "E", "W">> }
\* Transcripts containing a fallback keyword and no phrase of the spec's phrase table
KeywordTranscripts ==
    { <<"r", "o", "t", "a", "t", "e">>,
      <<"R", "o", "t", "a", "t", "i", "o", "n">>,
      <<"d", "r", "a", "g">>,
      <<"m", "o", "v", "e", " ", "i", "t">>,
      <<"z", "o", "o", "m">>,
      <<"s", "c", "a", "l", "e">>,
      <<"r", "e", "s", "e", "t">>,
      <<"c", "e", "n", "t", "e", "r">>,
      <<"h", "o", "m", "e">>,
      <<"r", "o", "t", "a", "t", "i", "o", "n", " ", "m", "o", "d", "e">> }
\* Transcripts with neither a phrase nor a keyword; blank and empty recognitions
UnmatchedTranscripts == { <<"h", "e", "l", "l", "o">>, <<" ", " ">>, <<>> }
VoiceTranscripts == PhraseTranscripts \cup KeywordTranscripts \cup UnmatchedTranscripts

\* Frames and keys of the voice path: a fist in two places turns the camera
VoiceFrames ==
    { NoHandsFrame,
      FrameOf(<<Hand("fist", <<300, 500>>)>>),
      FrameOf(<<Hand("fist", <<350, 520>>)>>) }
VoiceKeys == {NoKey, KeyQ}

NextVoice ==
    \/ Start
    \/ VoiceLoopTest
    \/ \E heard \in VoiceTranscripts : VoiceListen(heard)
    \/ \E f \in VoiceFrames : ReadFrame(f)
    \/ ReadFails
    \/ ProcessGestures
    \/ ApplyGestureToGraph
    \/ HandleVoiceCommand
    \/ DrawFrame
    \/ \E k \in VoiceKeys : HandleKey(k)
    \/ Stop

SpecVoice == Init /\ [][NextVoice]_vars

-----------------------------------------------------------------------------
(* The two threads around the queue and the running flag: up to MaxDrain    *)
(* commands wait at once, and both ways out of the loop are taken           *)

MaxDrain == 2

ThreadTranscripts ==
    { <<"d", "r", "a", "g", " ", "m", "o", "d", "e">>,
      <<"z", "o", "o", "m", " ", "m", "o", "d", "e">>,
      <<"r", "e", "s", "e", "t", " ", "v", "i", "e", "w">>,
      <<"h", "e", "l", "l", "o">> }
ThreadKeys == {NoKey, KeyQ, KeyEsc}

NextThreads ==
    \/ Start
    \/ VoiceLoopTest
    \/ \E heard \in ThreadTranscripts : VoiceListenUpTo(heard, MaxDrain)
    \/ \E f \in VoiceFrames : ReadFrame(f)
    \/ ReadFails
    \/ ProcessGestures
    \/ ApplyGestureToGraph
    \/ HandleVoiceCommand
    \/ DrawFrame
    \/ \E k \in ThreadKeys : HandleKey(k)
    \/ Stop

SpecThreads == Init /\ [][NextThreads]_vars

\* listen_for_command returns to the loop of process_voice_commands having
\* recognised nothing: possible whenever a listen is in progress
ListenReturns ==
    /\ voice_pc = "listen"
    /\ voice_pc' = "test"
    /\ UNCHANGED <<running, current_mode, gesture_data, voice_commands, graph_visualizer,
                   gesture_detector, voice_model, frame, frame_count, pc, last>>

\* The voice thread is a running thread of the process: its loop test is
\* eventually carried out and its listen_for_command call, a recording of two
\* seconds, eventually returns (with a command or without one)
VoiceThreadRuns ==
    /\ WF_vars(VoiceLoopTest)
    /\ WF_vars(ListenReturns)

SpecThreadsFair == SpecThreads /\ VoiceThreadRuns

-----------------------------------------------------------------------------
(* GraphVisualizer (modules/graph_visualizer.py): the held graph, its node  *)
(* positions and its edge data, and load_graph_from_file                    *)

\* A graph: its nodes, and its edges in the order graph.edges() gives them
Graph(nodes, edges) == [nodes |-> nodes, edges |-> edges]
SampleGraph == Graph({0, 1, 2}, << <<0, 1>>, <<1, 2>> >>)

\* nx.spring_layout is not seeded: any of LayoutSeeds is what it may return
LayoutSeeds == {1, 2}
spring_layout(graph, seed) ==
    [node \in graph.nodes |-> << ((37 * node + 11 * seed) % 100) - 50,
                                 ((53 * node + 29 * seed) % 100) - 50,
                                 ((71 * node + 43 * seed) % 100) - 50 >>]

\* {'x': x * 2, 'y': y * 2, 'z': z * 2}
Scaled(p) == << p[1] * 2, p[2] * 2, p[3] * 2 >>

\* _create_sample_graph: the edge data is built from the node positions
EdgeData(graph, node_positions) ==
    [i \in 1..Len(graph.edges) |->
        [start |-> node_positions[graph.edges[i][1]],
         end |-> node_positions[graph.edges[i][2]]]]

GraphVisualizerInit(seed) ==
    LET pos == spring_layout(SampleGraph, seed)
        node_positions == [node \in SampleGraph.nodes |-> Scaled(pos[node])]
    IN  [graph |-> SampleGraph,
         node_positions |-> node_positions,
         edge_data |-> EdgeData(SampleGraph, node_positions)]

\* A file: its extension, whether open/json.load/node_link_graph/read_graphml
\* succeed on it, and the graph it holds
File(ext, parses, graph) == [ext |-> ext, parses |-> parses, graph |-> graph]
FileGraphs ==
    { Graph({}, <<>>),
      Graph({3, 4}, << <<3, 4>> >>),
      Graph({1, 2, 3}, << <<1, 2>>, <<2, 3>>, <<1, 3>> >>),
      Graph({0, 1, 2, 3}, << <<0, 3>> >>) }
Files ==
    { File(ext, parses, graph) :
        ext \in {"json", "graphml", "txt"}, parses \in BOOLEAN, graph \in FileGraphs }

\* load_graph_from_file: the new graph object and the result; layout_raises
\* says that nx.spring_layout raises on this graph
load_graph_from_file(gv, file, seed, layout_raises) ==
    IF file.ext \notin {"json", "graphml"}
    THEN [gv |-> gv, result |-> FALSE]
    ELSE IF ~file.parses
    THEN [gv |-> gv, result |-> FALSE]
    ELSE LET loaded == [gv EXCEPT !.graph = file.graph]
         IN  IF layout_raises
             THEN [gv |-> loaded, result |-> FALSE]
             ELSE LET pos == spring_layout(file.graph, seed)
                      node_positions ==
                          [node \in DOMAIN gv.node_positions \cup DOMAIN pos |->
                              IF node \in DOMAIN pos
                              THEN Scaled(pos[node])
                              ELSE gv.node_positions[node]]
                  IN  [gv |-> [loaded EXCEPT !.node_positions = node_positions],
                       result |-> TRUE]

InitLoad ==
    /\ running = FALSE
    /\ current_mode = "rotate"
    /\ gesture_data = EmptyDict
    /\ voice_commands = <<>>
    /\ \E seed \in LayoutSeeds : graph_visualizer = GraphVisualizerInit(seed)
    /\ gesture_detector = GestureDetectorInit
    /\ voice_model = FALSE
    /\ frame = NoHandsFrame
    /\ frame_count = 0
    /\ pc = "visualizer"
    /\ voice_pc = "off"
    /\ last = NoOp

LoadGraphFromFile(file, seed, layout_raises) ==
    LET r == load_graph_from_file(graph_visualizer, file, seed, layout_raises)
    IN  /\ graph_visualizer' = r.gv
        /\ last' = [op |-> "load_graph_from_file", file |-> file, result |-> r.result,
                    layout_raises |-> layout_raises]
        /\ UNCHANGED <<running, current_mode, gesture_data, voice_commands, gesture_detector,
                       voice_model, frame, frame_count, pc, voice_pc>>

NextLoad ==
    \E file \in Files, seed \in LayoutSeeds, layout_raises \in BOOLEAN :
       LoadGraphFromFile(file, seed, layout_raises)

SpecLoad == InitLoad /\ [][NextLoad]_vars

-----------------------------------------------------------------------------
(* Claims about the gesture classifier (SpecDet) *)

Classified == last'.op = "detect_gestures"
TrackingKeys == {"pinch", "fist", "two_hand_distance"}

\* C7: for pinch and fist events the emitted displacement is zero on the
\* first frame on which that kind is observed and on every frame whose kind
\* differs from the kind of the previously emitted event.
C7_ZeroDisplacementOnKindChange ==
    [][Classified =>
        LET ev == gesture_data'
            kind == ev.gesture_type
        IN  (/\ kind \in {"pinch", "fist"}
             /\ \/ kind \notin DOMAIN gesture_detector.prev_positions
                \/ Get(gesture_data, "gesture_type", "none") # kind)
            => ev.movement = <<0, 0>>]_vars

\* C8: when a pinch (fist) is detected with a cached position of that kind,
\* displacement = current position - cached position; the kind's cache entry
\* is then the current position; the entries of the other kind and of the
\* two-hand distance are neither written nor do they influence the event.
C8_PerKindCache ==
    [][Classified =>
        LET pre == gesture_detector.prev_positions
            post == gesture_detector'.prev_positions
            ev == gesture_data'
            kind == ev.gesture_type
        IN  kind \in {"pinch", "fist"} =>
              /\ kind \in DOMAIN pre =>
                    ev.movement = << ev.position[1] - pre[kind][1],
                                     ev.position[2] - pre[kind][2] >>
              /\ DOMAIN post = DOMAIN pre \cup {kind}
              /\ post[kind] = ev.position
              /\ \A j \in DOMAIN pre \ {kind} : post[j] = pre[j]
              /\ \A j \in TrackingKeys \ {kind} :
                    \A v \in IF j = "two_hand_distance" THEN {0, 777}
                                                        ELSE {<<0, 0>>, <<999, 1>>} :
                       LET alt == detect_gestures([prev_positions |-> Put(pre, j, v)], frame')
                       IN  /\ alt.result = ev
                           /\ alt.det.prev_positions[kind] = post[kind]]_vars

C8_Witness ==
    /\ last.op = "detect_gestures"
    /\ gesture_data.gesture_type = "fist"
    /\ gesture_data.movement # <<0, 0>>
    /\ DOMAIN gesture_detector.prev_positions = TrackingKeys

\* C9: with exactly one hand, a thumb-index distance below the pinch
\* threshold gives a pinch event even when the fist threshold is satisfied
\* too, and the fist cache entry is untouched in that frame; distance 0 gives
\* pinch with confidence 1.0; if neither threshold is met the event is none.
C9_PinchBeforeFist ==
    [][(Classified /\ Len(frame'.hands) = 1) =>
        LET lm == frame'.hands[1]
            thumb_index == calculate_distance(lm[5], lm[9])
            spread == (calculate_distance(lm[1], lm[5]) + calculate_distance(lm[1], lm[9])
                       + calculate_distance(lm[1], lm[13]) + calculate_distance(lm[1], lm[17])
                       + calculate_distance(lm[1], lm[21])) \div 5
            pre == gesture_detector.prev_positions
            post == gesture_detector'.prev_positions
            ev == gesture_data'
        IN  /\ thumb_index < pinch_threshold =>
                /\ ev.gesture_type = "pinch"
                /\ ("fist" \in DOMAIN post) = ("fist" \in DOMAIN pre)
                /\ "fist" \in DOMAIN pre => post["fist"] = pre["fist"]
            /\ thumb_index = 0 => (ev.gesture_type = "pinch" /\ ev.confidence = One)
            /\ (thumb_index >= pinch_threshold /\ spread >= fist_threshold) => ev = NoGesture]_vars

C9_Witness ==
    /\ last.op = "detect_gestures"
    /\ frame = FrameOf(<<Hand("pinching_fist", <<350, 520>>)>>)
    /\ gesture_data.gesture_type = "pinch"
    /\ "fist" \in DOMAIN gesture_detector.prev_positions
    /\ gesture_detector.prev_positions["fist"] # Centroid(frame.hands[1])

\* C10: with zero detected hands classification returns the none event (a
\* value) and leaves every tracking cache entry unchanged.
C10_NoHandsIsNone ==
    [][(Classified /\ ~frame'.extractor_raises /\ Len(frame'.hands) = 0) =>
        /\ gesture_data' = NoGesture
        /\ gesture_detector' = gesture_detector]_vars

C10_Witness ==
    /\ last.op = "detect_gestures"
    /\ frame = NoHandsFrame
    /\ gesture_data = NoGesture
    /\ DOMAIN gesture_detector.prev_positions = TrackingKeys

TwoHands == Classified /\ Len(frame'.hands) = 2
\* current_distance / prev_distance as detect_two_hand_zoom measures it
MeasuredRatio(current_distance, prev_distance) == (current_distance * One) \div prev_distance

\* C11: on the first two-hand frame (no cached two-hand distance), or when
\* the cached distance is 0, the zoom ratio is exactly 1.0, no division by the
\* cached distance is performed, and no zoom event is forwarded (the event
\* is none).
C11_FirstTwoHandFrameIsNoZoom ==
    [][(/\ TwoHands
        /\ Get(gesture_detector.prev_positions, "two_hand_distance", 0) = 0)
       => /\ detect_two_hand_zoom(gesture_detector, frame'.hands[1],
                                  frame'.hands[2]).result.zoom_factor = One
          /\ gesture_data' = NoGesture]_vars

C11_Witness ==
    /\ last.op = "detect_gestures"
    /\ Len(frame.hands) = 2
    /\ "two_hand_distance" \in DOMAIN last.prev_positions
    /\ last.prev_positions["two_hand_distance"] = 0
    /\ gesture_detector.prev_positions["two_hand_distance"] > 0
    /\ gesture_data = NoGesture

C11_WitnessFirstFrame ==
    /\ last.op = "detect_gestures"
    /\ Len(frame.hands) = 2
    /\ "two_hand_distance" \notin DOMAIN last.prev_positions
    /\ gesture_detector.prev_positions["two_hand_distance"] > 0
    /\ gesture_data = NoGesture

\* C12: for a two-hand frame with a cached previous distance (> 0): the
\* measured ratio is snapped to 1.0 when |ratio - 1| < 0.1, and the event is
\* forwarded only when the snapped ratio has |ratio - 1| > 0.05, with the
\* measured ratio as its zoom ratio; so a ratio of 1.03 gives the none event
\* and a ratio of 1.2 a two_hand_zoom event with zoom ratio 1.2.
C12_ZoomRatioSnapAndGate ==
    [][(/\ TwoHands
        /\ Get(gesture_detector.prev_positions, "two_hand_distance", 0) > 0)
       => LET measured == MeasuredRatio(gesture_detector'.prev_positions["two_hand_distance"],
                                        gesture_detector.prev_positions["two_hand_distance"])
              snapped == IF Abs(measured - One) < 100 THEN One ELSE measured
          IN  /\ IF Abs(snapped - One) > 50
                 THEN /\ gesture_data'.gesture_type = "two_hand_zoom"
                      /\ gesture_data'.zoom_factor = measured
                 ELSE gesture_data' = NoGesture
              /\ measured = 1030 => gesture_data' = NoGesture
              /\ measured = 1200 => Get(gesture_data', "zoom_factor", 0) = 1200]_vars

C12_Witness ==
    /\ last.op = "detect_gestures"
    /\ Len(frame.hands) = 2
    /\ Get(last.prev_positions, "two_hand_distance", 0) = 200
    /\ gesture_detector.prev_positions["two_hand_distance"] = 240
    /\ gesture_data.gesture_type = "two_hand_zoom"
    /\ gesture_data.zoom_factor = 1200

C12_WitnessSuppressed ==
    /\ last.op = "detect_gestures"
    /\ Len(frame.hands) = 2
    /\ Get(last.prev_positions, "two_hand_distance", 0) = 200
    /\ gesture_detector.prev_positions["two_hand_distance"] = 206
    /\ gesture_data = NoGesture



\* The deviation from 1 of the ratio of this two-hand frame's distance to the
\* cached one
MeasuredDeviation ==
    Abs(MeasuredRatio(gesture_detector'.prev_positions["two_hand_distance"],
                      gesture_detector.prev_positions["two_hand_distance"]) - One)

\* C35: every two_hand_zoom event returned by detect_gestures has
\* |zoom_factor - 1| >= 0.1: the snap to 1.0 comes before the 0.05 gate, so no
\* event with a deviation between 0.05 and 0.1 is forwarded, and every
\* forwarded event passes zoom_graph's own 0.05 gate.
C35_ForwardedZoomDeviatesByTenth ==
    /\ []((/\ gesture_data # EmptyDict
           /\ gesture_data.gesture_type = "two_hand_zoom")
          => /\ Abs(gesture_data.zoom_factor - One) >= 100
             /\ zoom_graph([zoom_factor |-> DefaultZoom],
                           gesture_data.zoom_factor).zoom_factor # DefaultZoom)
    /\ [][(/\ TwoHands
            /\ Get(gesture_detector.prev_positions, "two_hand_distance", 0) > 0
            /\ MeasuredDeviation > 50
            /\ MeasuredDeviation < 100)
           => gesture_data' = NoGesture]_vars

\* A ratio of 1.08 (from 200 to 216) has not been forwarded
C35_Witness ==
    /\ last.op = "detect_gestures"
    /\ Len(frame.hands) = 2
    /\ Get(last.prev_positions, "two_hand_distance", 0) = 200
    /\ gesture_detector.prev_positions["two_hand_distance"] = 216
    /\ gesture_data = NoGesture

\* A ratio below 1 has been forwarded: from 240 to 200
C35_WitnessForwarded ==
    /\ last.op = "detect_gestures"
    /\ Get(last.prev_positions, "two_hand_distance", 0) = 240
    /\ gesture_data.gesture_type = "two_hand_zoom"
    /\ gesture_data.zoom_factor < 900

\* The distance between the centroids of the two hands of frame f
HandDistance(f) == calculate_distance(Centroid(f.hands[1]), Centroid(f.hands[2]))

\* C36: the cached two-hand distance is overwritten with the current distance
\* on every two-hand frame, the frames whose event is suppressed included; so
\* on each of consecutive two-hand frames whose frame-to-frame ratio deviates
\* from 1 by less than 0.1 no zoom event is forwarded and the zoom scalar
\* stays as it is, however far the hands have moved apart in all.
C36_SlowZoomIsNeverForwarded ==
    [][TwoHands =>
        /\ gesture_detector'.prev_positions["two_hand_distance"] = HandDistance(frame')
        /\ (/\ Get(gesture_detector.prev_positions, "two_hand_distance", 0) > 0
            /\ MeasuredDeviation < 100)
           => /\ gesture_data' = NoGesture
              /\ \A viz \in {OverlayGraphVisualizerInit(SampleLayout)} :
                    apply_gesture_to_graph("zoom", viz, gesture_data') = viz]_vars

\* The hands are 240 apart after 228, a frame-to-frame ratio of 1.053 that is
\* not forwarded; the cache holds 240 afterwards
C36_Witness ==
    /\ last.op = "detect_gestures"
    /\ Len(frame.hands) = 2
    /\ Get(last.prev_positions, "two_hand_distance", 0) = 228
    /\ gesture_detector.prev_positions["two_hand_distance"] = 240
    /\ gesture_data = NoGesture

\* The frame with its two hands listed the other way round
HandsSwapped(f) == [f EXCEPT !.hands = << f.hands[2], f.hands[1] >>]

\* C26: the two-hand zoom result does not depend on which hand is listed
\* first: from every cache state, the frame and the frame with its hands
\* swapped give the same kind of event (forwarded zoom or none), the same
\* zoom ratio and measured distance, and the same cache afterwards.
C26_ZoomIgnoresHandOrder ==
    [][TwoHands =>
          \A swapped \in {detect_gestures(gesture_detector, HandsSwapped(frame'))} :
             /\ swapped.det = gesture_detector'
             /\ swapped.result.gesture_type = gesture_data'.gesture_type
             /\ gesture_data'.gesture_type = "two_hand_zoom" =>
                   /\ swapped.result.zoom_factor = gesture_data'.zoom_factor
                   /\ swapped.result.distance = gesture_data'.distance
                   /\ swapped.result.left_position = gesture_data'.right_position]_vars

\* Two different hands further apart than in the frame before: a zoom is forwarded
C26_Witness ==
    /\ last.op = "detect_gestures"
    /\ Len(frame.hands) = 2
    /\ frame.hands[1] # frame.hands[2]
    /\ frame \in MixedTwoHandFrames
    /\ "two_hand_distance" \in DOMAIN last.prev_positions
    /\ gesture_data.gesture_type = "two_hand_zoom"
    /\ gesture_data.zoom_factor > One

-----------------------------------------------------------------------------
(* Claims about the visualizer's intents (SpecViz) *)

\* C4 as stated: after any sequence of rotation intents, with displacements
\* of any magnitude and interleaved with resets, pitch (rotation_x) lies in
\* the open interval (-pi/2, pi/2).
C4_PitchInOpenInterval ==
    /\ -HalfPi < graph_visualizer.rotation_x
    /\ graph_visualizer.rotation_x < HalfPi

\* C4 as amended: after any sequence of rotation intents, with displacements
\* of any magnitude and interleaved with resets, pitch (rotation_x) lies in
\* the closed interval [-pi/2, pi/2]; the bounds themselves are reached.
C4_PitchInClosedInterval ==
    /\ -HalfPi <= graph_visualizer.rotation_x
    /\ graph_visualizer.rotation_x <= HalfPi

C4_Witness ==
    /\ last.op = "rotate_graph"
    /\ graph_visualizer.rotation_x = -HalfPi
    /\ graph_visualizer.rotation_y # 0

\* C5: from any reachable camera state reset_camera sets the eye position to
\* (0, 0, 8), yaw = 0, pitch = 0 and zoom = 1.5, and a second reset changes
\* nothing more.
C5_ResetRestoresDefaults ==
    [][last'.op = "reset_camera" =>
        /\ graph_visualizer'.camera_pos = <<0, 0, 800000>>
        /\ graph_visualizer'.rotation_y = 0
        /\ graph_visualizer'.rotation_x = 0
        /\ graph_visualizer'.zoom_factor = 1500
        /\ reset_camera(graph_visualizer') = graph_visualizer'
        /\ last.op = "reset_camera" => graph_visualizer' = graph_visualizer]_vars

C5_Witness ==
    /\ last.op = "reset_camera"
    /\ last.camera_before[2] # 0
    /\ last.camera_before[3] # 0
    /\ last.camera_before[4] # 1500
    /\ graph_visualizer.rotation_x = 0
    /\ graph_visualizer.zoom_factor = 1500

-----------------------------------------------------------------------------
(* Claims about the application's main loop (Spec) *)

\* A step of the main thread (process_voice_commands moves voice_pc in each of its steps)
MainStep == voice_pc' = voice_pc
Dispatched == MainStep /\ pc = "apply" /\ last'.op = "apply_gesture_to_graph"
Accepted == { <<"drag", "pinch">>, <<"rotate", "fist">>, <<"zoom", "two_hand_zoom">> }

\* C1: for every active mode and every gesture event whose kind is not the
\* kind accepted by that mode (drag/pinch, rotate/fist, zoom/two_hand_zoom),
\* apply_gesture_to_graph changes nothing: no node 3D position, yaw, pitch,
\* zoom, selected node or mode changes; in particular a fist event in mode
\* drag moves no node.
C1_MismatchedKindIsDropped ==
    [][(/\ Dispatched
        /\ gesture_data.gesture_type \in {"pinch", "fist", "two_hand_zoom"}
        /\ <<current_mode, gesture_data.gesture_type>> \notin Accepted)
       => /\ graph_visualizer' = graph_visualizer
          /\ current_mode' = current_mode
          /\ pc' = "commands"]_vars

C1_Witness ==
    /\ pc = "commands"
    /\ last.op = "apply_gesture_to_graph"
    /\ current_mode = "drag"
    /\ gesture_data.gesture_type = "fist"
    /\ gesture_data.movement # <<0, 0>>

\* C2: the active mode is changed only by an explicit command (a handled
\* voice command or one of the keys '1', '2', '3'): classifying and
\* dispatching a gesture event of any kind, with any payload, in any mode
\* leaves current_mode unchanged.
C2_ModeChangedOnlyByCommand ==
    [][/\ (MainStep /\ pc \in {"gestures", "apply"}) => current_mode' = current_mode
       /\ current_mode' # current_mode =>
            \/ pc = "commands" /\ last'.op = "handle_voice_command"
            \/ pc = "key" /\ last'.op = "key" /\ last'.key \in {Key1, Key2, Key3}]_vars

C2_Witness ==
    /\ pc = "commands"
    /\ last.op = "apply_gesture_to_graph"
    /\ current_mode = "zoom"
    /\ gesture_data.gesture_type = "pinch"
    /\ gesture_data.movement # <<0, 0>>

\* C3: the initial mode is rotate, and in every reachable state the active
\* mode is exactly one of rotate, drag, zoom, whatever voice commands
\* (unmatched ones included), key presses and gestures have been processed.
C3_ModeIsOneOfThree ==
    /\ current_mode = "rotate"
    /\ [](current_mode \in Modes)

C3_Witness ==
    /\ last.op = "handle_voice_command"
    /\ last.command = P_rotation_mode
    /\ current_mode = "drag"
    /\ Get(gesture_data, "gesture_type", "None") = "two_hand_zoom"
    /\ frame_count > 0

\* C6: a reset command (the voice command or the 'r' key) resets the camera
\* to its defaults in every active mode, and leaves the active mode and every
\* node's 3D position unchanged.
C6_ResetInEveryMode ==
    [][(/\ MainStep
        /\ \/ pc = "commands" /\ voice_commands # <<>> /\ Head(voice_commands) = P_reset_view
           \/ pc \in {"commands", "key"} /\ last'.op = "reset_camera")
       => /\ CameraBefore(graph_visualizer') = <<DefaultCameraPos, 0, 0, DefaultZoom>>
          /\ current_mode' = current_mode
          /\ graph_visualizer'.node_positions = graph_visualizer.node_positions]_vars

C6_Witness ==
    /\ last.op = "reset_camera"
    /\ last.by = "voice"
    /\ current_mode = "zoom"
    /\ last.camera_before[4] # DefaultZoom
    /\ graph_visualizer.zoom_factor = DefaultZoom

C6_WitnessKey ==
    /\ last.op = "reset_camera"
    /\ last.by = "key"
    /\ current_mode = "drag"
    /\ graph_visualizer.node_positions # SampleLayout

\* Screen positions asked about: on each node's screen position and 49, 50
\* (straight and along a 30-40-50 triangle) and 51 pixels from it
QueryPositions(viz) ==
    UNION { { << viz.node_screen_positions[node][1] + d[1],
                 viz.node_screen_positions[node][2] + d[2] >> :
              d \in { <<0, 0>>, <<49, 0>>, <<50, 0>>, <<-30, 40>>, <<-29, 40>>, <<0, -51>> } } :
            node \in DOMAIN viz.node_screen_positions }
ScreenPos(viz, node) == Get(viz.node_screen_positions, node, OffScreen)
SqDistance(a, b) == (a[1] - b[1]) * (a[1] - b[1]) + (a[2] - b[2]) * (a[2] - b[2])
\* The on-screen nodes less than 50 pixels from q
Candidates(viz, q) ==
    { node \in Nodes : /\ OnScreen(viz, ScreenPos(viz, node))
                       /\ SqDistance(ScreenPos(viz, node), q) < 50 * 50 }

\* C14: find_closest_node returns a node only if that node is on-screen and
\* less than 50 pixels from the query position, and the returned node
\* minimises the distance over all on-screen nodes; it returns no hit exactly
\* when no on-screen node is within 50 pixels; off-screen nodes (those with
\* the sentinel included) are never returned.
C14_ClosestOnScreenNodeWithin50 ==
    \A q \in QueryPositions(graph_visualizer) :
       LET hit == find_closest_node(graph_visualizer, q)
       IN  /\ hit # NoNode =>
                /\ hit \in Candidates(graph_visualizer, q)
                /\ \A m \in Nodes :
                      OnScreen(graph_visualizer, ScreenPos(graph_visualizer, m))
                      => SqDistance(ScreenPos(graph_visualizer, hit), q)
                           <= SqDistance(ScreenPos(graph_visualizer, m), q)
           /\ (hit = NoNode) <=> (Candidates(graph_visualizer, q) = {})

\* Asked on the position of a node that is just off the screen, the closest
\* of several on-screen candidates is returned, and it is not the first of them
C14_Witness ==
    \E node \in DOMAIN graph_visualizer.node_screen_positions :
       LET q == graph_visualizer.node_screen_positions[node]
           hit == find_closest_node(graph_visualizer, q)
       IN  /\ ~OnScreen(graph_visualizer, q)
           /\ q # OffScreen
           /\ Cardinality(Candidates(graph_visualizer, q)) >= 2
           /\ hit # NoNode
           /\ \E m \in Candidates(graph_visualizer, q) : m < hit

\* With every node off the screen nothing is found, even on a node's own position
C14_WitnessNoHit ==
    /\ DOMAIN graph_visualizer.node_screen_positions = Nodes
    /\ \A node \in Nodes :
          find_closest_node(graph_visualizer,
                            graph_visualizer.node_screen_positions[node]) = NoNode

\* A normalized gesture position that drag_node converts to the pixel `pixel`
NormalizedAt(viz, pixel) ==
    LET Coord(px, size) == IF px >= 0 THEN (px * One + size - 1) \div size
                                      ELSE -(((-px) * One + size - 1) \div size)
    IN  << Coord(pixel[1], viz.screen_width), Coord(pixel[2], viz.screen_height) >>
PinchEvent(position, movement) ==
    [gesture_type |-> "pinch", position |-> position, movement |-> movement,
     confidence |-> One]
\* In mode drag, a pinch on node n's stored screen coordinate with displacement
\* (dx, 0) moves n's X by dx * drag_sensitivity * 0.01 and nothing else
DragMovesOnly(viz, n, dx) ==
    LET after == apply_gesture_to_graph("drag", viz,
                     PinchEvent(NormalizedAt(viz, viz.node_screen_positions[n]), <<dx, 0>>))
        p == viz.node_positions[n]
    IN  /\ after.node_positions[n] = << p[1] + (dx * 100 * drag_sensitivity) \div 100,
                                        p[2], p[3] >>
        /\ \A m \in Nodes \ {n} : after.node_positions[m] = viz.node_positions[m]
Displacements == {50, -50, 5}

\* C15 as stated: in drag mode, a pinch event whose position maps to node n's
\* screen coordinate, with displacement (dx, 0), moves node n's 3D X
\* coordinate by dx * drag_sensitivity * 0.01 and leaves the 3D positions of
\* all other nodes unchanged, for every node n (dx = 0.05 included).
C15_DragMovesNodeUnderPinch ==
    \A n \in DOMAIN graph_visualizer.node_screen_positions : \A dx \in Displacements :
       DragMovesOnly(graph_visualizer, n, dx)

\* C15 as amended: the same, for a node n that is on-screen (as last drawn)
\* and is the first node in graph order drawn at that screen coordinate.
C15_DragMovesOnScreenNodeUnderPinch ==
    \A n \in DOMAIN graph_visualizer.node_screen_positions : \A dx \in Displacements :
       (/\ OnScreen(graph_visualizer, graph_visualizer.node_screen_positions[n])
        /\ \A m \in Nodes : m < n => graph_visualizer.node_screen_positions[m]
                                       # graph_visualizer.node_screen_positions[n])
       => DragMovesOnly(graph_visualizer, n, dx)

\* drag_node has moved node 1 of the sample layout, pinched on its pixel, by
\* (0.05, 0): X is 0.05 more, the others are where they were
C15_Witness ==
    /\ last.op = "drag_node"
    /\ graph_visualizer.selected_node = 1
    /\ graph_visualizer.node_positions =
          [SampleLayout EXCEPT ![1] = << SampleLayout[1][1] + 5000, SampleLayout[1][2],
                                         SampleLayout[1][3] >>]

-----------------------------------------------------------------------------
(* Claims about the projection (SpecProj) *)

\* -relative_pos[2] of the source: the depth of the point in front of the camera
CameraDepth(viz, point_3d) == -RelativePos(viz, point_3d)[3]
ScreenSizes == { <<1, 1>>, <<640, 480>>, <<1920, 1080>>, <<10000, 10000>> }

\* C13: for every point and every camera state (yaw, pitch, zoom), a point
\* whose camera-relative depth is at or below epsilon (0.1) is projected to
\* the off-screen sentinel (-1000, -1000), never to a computed coordinate,
\* and the sentinel is off-screen for every screen size.
C13_NearPointsGetSentinel ==
    /\ \A node \in Nodes :
          CameraDepth(graph_visualizer, graph_visualizer.node_positions[node]) <= 10^4
          => /\ _project_3d_to_2d(graph_visualizer, graph_visualizer.node_positions[node])
                  = <<-1000, -1000>>
             /\ last.op = "draw_graph_on_frame"
                  => graph_visualizer.node_screen_positions[node] = <<-1000, -1000>>
    /\ \A size \in ScreenSizes :
          ~OnScreen([screen_width |-> size[1], screen_height |-> size[2]], <<-1000, -1000>>)

C13_Witness ==
    /\ last.op = "draw_graph_on_frame"
    /\ graph_visualizer.rotation_y # 0
    /\ graph_visualizer.zoom_factor # DefaultZoom
    /\ \E node \in Nodes :
          /\ CameraDepth(graph_visualizer, graph_visualizer.node_positions[node]) \in 1..(10^4)
          /\ graph_visualizer.node_screen_positions[node] = OffScreen
    /\ \E node \in Nodes :
          /\ CameraDepth(graph_visualizer, graph_visualizer.node_positions[node]) > 10^4
          /\ graph_visualizer.node_screen_positions[node] # OffScreen

-----------------------------------------------------------------------------
(* Claims about the voice path (SpecVoice) *)

\* The spec's phrase table and fallback keywords, with their targets
PhraseTable ==
    << <<P_rotate_mode, "rotate">>, <<P_drag_mode, "drag">>, <<P_zoom_mode, "zoom">>,
       <<P_reset_view, "reset">>, <<P_reset_camera, "reset">>, <<P_center_view, "reset">> >>
KeywordTable ==
    << <<W_rotate, "rotate">>, <<W_rotation, "rotate">>, <<W_drag, "drag">>,
       <<W_move, "drag">>, <<W_zoom, "zoom">>, <<W_scale, "zoom">>,
       <<W_reset, "reset">>, <<W_center, "reset">>, <<W_home, "reset">> >>
HasPhrase(t) == \E i \in 1..Len(PhraseTable) : Contains(Lower(t), PhraseTable[i][1])
\* The main loop takes a command off the queue and handles it
Handling == MainStep /\ pc = "commands" /\ voice_commands # <<>>
\* The transition `target` takes effect in this step
Effect(target) ==
    IF target = "reset"
    THEN CameraBefore(graph_visualizer') = <<DefaultCameraPos, 0, 0, DefaultZoom>>
    ELSE current_mode' = target
\* Every transcript of `transcripts` heard as the command being handled has
\* the effect `table` gives for what it contains
HandledAsIn(transcripts, table) ==
    \A t \in transcripts :
       listen_for_command(t) = Head(voice_commands) =>
          \A i \in 1..Len(table) : Contains(Lower(t), table[i][1]) => Effect(table[i][2])

\* C16: end to end from transcript to effect, a transcript containing an
\* exact phrase of the table triggers the table's target whatever the letter
\* case: "rotate mode", "drag mode" and "zoom mode" set the mode rotate, drag
\* and zoom, and each of "reset view", "reset camera" and "center view"
\* resets the camera.
C16_PhraseTriggersTarget ==
    [][Handling => HandledAsIn(PhraseTranscripts, PhraseTable)]_vars

\* C17: a transcript with no exact table phrase but with a fallback keyword
\* (rotate/rotation, drag/move, zoom/scale, reset/center/home) has the
\* keyword's transition take effect; a transcript with neither enqueues no
\* command and changes neither the mode nor the camera.
C17_KeywordFallback ==
    /\ \A t \in KeywordTranscripts : ~HasPhrase(t)
    /\ \A t \in UnmatchedTranscripts : listen_for_command(t) = NoCommand
    /\ [][/\ Handling => HandledAsIn(KeywordTranscripts, KeywordTable)
          /\ ~MainStep => /\ UNCHANGED <<current_mode, graph_visualizer>>
                          /\ \/ voice_commands' = voice_commands
                             \/ \E t \in VoiceTranscripts \ UnmatchedTranscripts :
                                   voice_commands' = Append(voice_commands,
                                                            listen_for_command(t))]_vars

\* What does hold of the voice path: the phrases "rotate mode", "drag mode",
\* "zoom mode" and "reset view" and every fallback keyword have their effect;
\* "reset camera", "center view" and "rotation mode" are queued as they are and
\* fall into handle_voice_command's unknown-command branch.
VoicePathExceptUnhandledPhrases ==
    [][Handling =>
        /\ HandledAsIn({t \in PhraseTranscripts :
                           listen_for_command(t) \notin {P_reset_camera, P_center_view}},
                       PhraseTable)
        /\ HandledAsIn({t \in KeywordTranscripts : listen_for_command(t) # P_rotation_mode},
                       KeywordTable)
        /\ Head(voice_commands) \in {P_reset_camera, P_center_view, P_rotation_mode}
             => UNCHANGED <<current_mode, graph_visualizer>>]_vars

VoicePathWitness ==
    /\ last.op = "handle_voice_command"
    /\ last.command = P_center_view
    /\ graph_visualizer.rotation_y # 0

-----------------------------------------------------------------------------
(* Claims about the two threads (SpecThreads) *)

\* A step of the voice thread: its position changes once it has been started
VoiceStep == voice_pc # "off" /\ voice_pc' # voice_pc
\* A step of the main thread
LoopStep == ~VoiceStep
\* The main loop is in its drain, "while not self.voice_commands.empty()"
Draining == LoopStep /\ pc = "commands"
\* The commands the voice thread can put
ThreadCommands == { listen_for_command(t) : t \in ThreadTranscripts } \ {NoCommand}

\* C18: the queue has one producer, the voice thread, which only appends at
\* the tail, and one consumer, the main loop, which only takes the head; in a
\* frame the loop handles the waiting commands oldest first, one per turn,
\* leaves the drain only when the queue is empty, and with an empty queue its
\* step is the one to drawing (it does not wait for a command); outside the
\* drain it leaves the queue alone, so no command is lost or handled twice.
C18_QueueDrainedInFifoOrder ==
    [][/\ VoiceStep =>
            \/ voice_commands' = voice_commands
            \/ \E c \in ThreadCommands : voice_commands' = Append(voice_commands, c)
       /\ (Draining /\ voice_commands # <<>>) =>
            LET r == handle_voice_command(current_mode, graph_visualizer,
                                          Head(voice_commands))
            IN  /\ voice_commands' = Tail(voice_commands)
                /\ current_mode' = r.current_mode
                /\ graph_visualizer' = r.graph_visualizer
                /\ last'.queue = voice_commands
                /\ pc' = "commands"
       /\ (Draining /\ voice_commands = <<>>) =>
            /\ pc' = "key"
            /\ voice_commands' = <<>>
       /\ (LoopStep /\ pc # "commands") => voice_commands' = voice_commands]_vars

\* Two different commands were waiting, the older one has been handled and
\* has had its effect, the newer one is still first in the queue, and a third
\* has arrived during the drain
C18_Witness ==
    /\ pc = "commands"
    /\ last.op = "handle_voice_command"
    /\ last.queue = <<P_drag_mode, P_zoom_mode>>
    /\ current_mode = "drag"
    /\ voice_commands = <<P_zoom_mode, P_reset_view>>

\* C19: under every interleaving, a step of the voice thread leaves the mode,
\* the visualizer (eye, yaw, pitch, zoom, node positions, selected node) and
\* every other variable of the application as they are, except that it may
\* append one command to the queue; the mode and the visualizer change only
\* in steps of the main loop (dispatch, drain, drawing, key handling).
C19_VoiceThreadOnlyPuts ==
    [][/\ VoiceStep =>
            /\ UNCHANGED <<running, current_mode, graph_visualizer, gesture_data,
                           gesture_detector, frame, frame_count, pc, last>>
            /\ \/ voice_commands' = voice_commands
               \/ \E c \in ThreadCommands : voice_commands' = Append(voice_commands, c)
       /\ (current_mode' # current_mode \/ graph_visualizer' # graph_visualizer) =>
            /\ LoopStep
            /\ pc \in {"apply", "commands", "key"}
            /\ last'.op \in {"apply_gesture_to_graph", "handle_voice_command",
                              "reset_camera", "draw_graph_on_frame", "key"}]_vars

\* The voice thread has put a command while the main loop is between drawing
\* a frame and handling its key, with the camera turned by a gesture and the
\* mode changed by an earlier command
C19_Witness ==
    /\ pc = "key"
    /\ voice_pc = "test"
    /\ voice_commands = <<P_zoom_mode>>
    /\ current_mode = "drag"
    /\ graph_visualizer.rotation_y # 0

-----------------------------------------------------------------------------
(* Claims about cancellation (SpecThreadsFair) *)

\* stop has cleared the flag
Cleared == pc = "done"

\* C20: the running flag is set by start and cleared only by stop, which is
\* reached only after 'q'/ESC or a failed frame read; a frame of the main loop
\* and a listen of the voice thread each start only from the loop test with
\* the flag set, and a listen is followed by the next test; once the flag is
\* cleared no frame and no listen starts, the main loop takes no further
\* step, and the voice thread, after at most the listen in progress,
\* terminates and stays terminated.
C20_CooperativeCancellation ==
    /\ [](running <=> pc \notin {"start", "done"})
    /\ [][/\ running' # running =>
                \/ pc = "start" /\ running' /\ last'.op = "start"
                \/ pc = "stop" /\ ~running' /\ last'.op = "stop"
          /\ (pc' = "stop" /\ pc # "stop") =>
                \/ pc = "loop" /\ last'.op = "read_failed"
                \/ pc = "key" /\ last'.op = "key" /\ last'.key \in {KeyQ, KeyEsc}
          /\ (pc' = "gestures" /\ pc # "gestures") => (pc = "loop" /\ running)
          /\ (voice_pc' = "listen" /\ voice_pc # "listen") => (voice_pc = "test" /\ running)
          /\ (voice_pc = "listen" /\ voice_pc' # "listen") => voice_pc' = "test"
          /\ (voice_pc = "test" /\ ~running /\ VoiceStep) => voice_pc' = "done"
          /\ voice_pc = "done" => voice_pc' = "done"
          /\ Cleared => /\ VoiceStep
                        /\ voice_pc' \in {"test", "done"}
                        /\ UNCHANGED <<running, pc, frame, frame_count, current_mode,
                                       graph_visualizer, last>>]_vars
    /\ Cleared ~> (voice_pc \in {"off", "done"})
    /\ (Cleared /\ voice_model) ~> [](voice_pc = "done")

\* The loop ran a frame and was left, stop cleared the flag, and the voice
\* thread has terminated after putting a command nobody handles any more
C20_Witness ==
    /\ Cleared
    /\ ~running
    /\ last.op = "stop"
    /\ frame_count = 1
    /\ voice_pc = "done"
    /\ voice_commands # <<>>

\* The flag is cleared while a listen is in progress
C20_WitnessListenInProgress ==
    /\ Cleared
    /\ ~running
    /\ voice_pc = "listen"

-----------------------------------------------------------------------------
(* Claims about loading a graph (SpecLoad) *)

Loading == last'.op = "load_graph_from_file"

\* C21: a load_graph_from_file that fails at any step (unsupported extension,
\* unreadable or unparseable file, failure of the layout) returns False and
\* leaves the held graph, the node positions and the edge data exactly as
\* they were before the call.
C21_FailedLoadLeavesGraph ==
    [][(Loading /\ ~last'.result) => graph_visualizer' = graph_visualizer]_vars

\* What does hold of a failed load: the node positions and the edge data are
\* as before, and so is the graph unless it is the layout that failed
C21_FailedLoadLeavesPositions ==
    [][(Loading /\ ~last'.result) =>
          /\ graph_visualizer'.node_positions = graph_visualizer.node_positions
          /\ graph_visualizer'.edge_data = graph_visualizer.edge_data
          /\ ~last'.layout_raises => graph_visualizer'.graph = graph_visualizer.graph]_vars

\* C22: after a successful load_graph_from_file the node-position map has an
\* entry for every node of the new graph and for no other node, and the edge
\* data is that of the new graph's edges at the new positions.
C22_SuccessfulLoadHoldsLoadedGraph ==
    [][(Loading /\ last'.result) =>
          /\ graph_visualizer'.graph = last'.file.graph
          /\ DOMAIN graph_visualizer'.node_positions = last'.file.graph.nodes
          /\ graph_visualizer'.edge_data =
                EdgeData(last'.file.graph, graph_visualizer'.node_positions)]_vars

\* What does hold of a successful load: the graph is the loaded one and every
\* node of it has a position
C22_SuccessfulLoadPositionsNewNodes ==
    [][(Loading /\ last'.result) =>
          /\ graph_visualizer'.graph = last'.file.graph
          /\ last'.file.graph.nodes \subseteq DOMAIN graph_visualizer'.node_positions]_vars

-----------------------------------------------------------------------------
(* Claims about the application without voice recognition (Spec) *)

\* C23: with no recognition model loaded no voice thread is started and the
\* command queue stays empty; the main loop goes through its frames all the
\* same: a frame is classified, the event is dispatched under the current
\* mode, the drain has nothing to do and the frame is drawn, and the keys
\* 1, 2, 3 set the mode and r resets the camera.
C23_RunsWithoutVoice ==
    /\ [](~voice_model => (voice_pc = "off" /\ voice_commands = <<>>))
    /\ [][~voice_model =>
            /\ (pc = "gestures" /\ ~frame.extractor_raises) =>
                  /\ gesture_data' = detect_gestures(gesture_detector, frame).result
                  /\ gesture_detector' = detect_gestures(gesture_detector, frame).det
                  /\ pc' = "apply"
            /\ pc = "apply" =>
                  /\ graph_visualizer' =
                        apply_gesture_to_graph(current_mode, graph_visualizer, gesture_data)
                  /\ pc' = "commands"
            /\ pc = "commands" => (last'.op = "draw_graph_on_frame" /\ pc' = "key")
            /\ (pc = "key" /\ last'.op = "key" /\ last'.key = Key1) => current_mode' = "rotate"
            /\ (pc = "key" /\ last'.op = "key" /\ last'.key = Key2) => current_mode' = "drag"
            /\ (pc = "key" /\ last'.op = "key" /\ last'.key = Key3) => current_mode' = "zoom"
            /\ (pc = "key" /\ last'.op = "reset_camera") =>
                  CameraBefore(graph_visualizer') = <<DefaultCameraPos, 0, 0, DefaultZoom>>
            /\ (pc = "key" /\ pc' = "loop") => frame_count' = frame_count + 1]_vars

\* Without voice: key 3 has set the zoom mode in the first frame and a
\* two-hand zoom of the second frame has scaled the view
C23_Witness ==
    /\ ~voice_model
    /\ voice_pc = "off"
    /\ frame_count = 2
    /\ current_mode = "zoom"
    /\ graph_visualizer.zoom_factor = 1800

\* Without voice: the r key has reset a camera a fist had turned
C23_WitnessReset ==
    /\ ~voice_model
    /\ last.op = "reset_camera"
    /\ last.by = "key"
    /\ last.camera_before[3] # 0

-----------------------------------------------------------------------------
(* Claims about the rotation and zoom intents (SpecViz) *)

Rotated == last'.op = "rotate_graph"
CameraReset == last'.op = "reset_camera"
\* The yaw one rotation intent with this displacement adds (1/100000 rad)
YawIncrement(movement) == rotate_graph(OverlayGraphVisualizerInit(SampleLayout), movement).rotation_y
\* The state is the one after the second of two rotation intents with
\* displacement (0.1, 0.1) applied to the default camera
RotatedTwiceFromDefault ==
    LET once == rotate_graph(OverlayGraphVisualizerInit(SampleLayout), <<100, 100>>)
    IN  /\ last.op = "rotate_graph"
        /\ last.args = <<100, 100>>
        /\ last.camera_before = CameraBefore(once)
\* Between resets yaw is the running sum of the increments of the rotation
\* intents: an intent adds its increment to whatever yaw is, nothing else but
\* a reset changes yaw, and yaw starts and restarts at 0
YawIsRunningSum ==
    [][/\ Rotated => graph_visualizer'.rotation_y =
                        graph_visualizer.rotation_y + YawIncrement(last'.args)
       /\ CameraReset => graph_visualizer'.rotation_y = 0
       /\ (~Rotated /\ ~CameraReset) =>
             graph_visualizer'.rotation_y = graph_visualizer.rotation_y]_vars

\* C24: from the default camera, the rotation intent with displacement
\* (0.1, 0.1) applied twice yields yaw = 0.2 * rotate_sensitivity (0.4 rad);
\* between resets yaw is the running sum of the per-intent increments, with
\* no wrap-around or normalization.
C24_YawTwoTenthsOfSensitivity ==
    /\ [](RotatedTwiceFromDefault =>
            graph_visualizer.rotation_y = 200 * rotate_sensitivity * 100)
    /\ YawIsRunningSum

\* C24 as amended: the two intents yield yaw = 0.2 * rotate_sensitivity * 0.01
\* (0.004 rad); the running sum is as claimed.
C24_YawTwoTenthsOfSensitivityScaled ==
    /\ [](RotatedTwiceFromDefault =>
            graph_visualizer.rotation_y = 200 * rotate_sensitivity)
    /\ YawIsRunningSum

C24_Witness ==
    /\ RotatedTwiceFromDefault
    /\ graph_visualizer.rotation_y = 400

\* Yaw has gone past a full turn and is kept as it is
C24_WitnessFullTurn ==
    /\ last.op = "rotate_graph"
    /\ graph_visualizer.rotation_y > 4 * HalfPi

\* A zoom intent with a ratio the classifier forwards (more than 0.05 from 1)
ForwardedZoom == last'.op = "zoom_graph" /\ Abs(last'.args - One) > 50
\* Everything of the visualizer but the zoom scalar and the screen cache
ZoomLeavesRest ==
    /\ graph_visualizer'.rotation_y = graph_visualizer.rotation_y
    /\ graph_visualizer'.rotation_x = graph_visualizer.rotation_x
    /\ graph_visualizer'.camera_pos = graph_visualizer.camera_pos
    /\ graph_visualizer'.node_positions = graph_visualizer.node_positions

\* C25: in zoom mode a forwarded two_hand_zoom event with ratio r sets the
\* zoom scalar to previous zoom * r and changes neither yaw, pitch, eye
\* position nor any node position.
C25_ZoomScalesByRatio ==
    [][ForwardedZoom =>
          /\ graph_visualizer'.zoom_factor =
                (graph_visualizer.zoom_factor * last'.args) \div One
          /\ ZoomLeavesRest]_vars

\* C25 as amended: the zoom scalar becomes previous zoom * r clamped to
\* [0.2, 5.0]; the rest is as claimed.
C25_ZoomScalesByRatioClamped ==
    [][ForwardedZoom =>
          /\ graph_visualizer'.zoom_factor =
                LET scaled == (graph_visualizer.zoom_factor * last'.args) \div One
                IN  IF scaled < 200 THEN 200 ELSE IF scaled > 5000 THEN 5000 ELSE scaled
          /\ ZoomLeavesRest]_vars

\* A turned camera at zoom 1.5 was zoomed by 1.2 to 1.8
C25_Witness ==
    /\ last.op = "zoom_graph"
    /\ last.args = 1200
    /\ last.camera_before[4] = 1500
    /\ graph_visualizer.zoom_factor = 1800
    /\ graph_visualizer.rotation_y # 0

\* Zoom 1.5 scaled by 4.0 stops at 5.0
C25_WitnessClamped ==
    /\ last.op = "zoom_graph"
    /\ last.args = 4000
    /\ last.camera_before[4] = 1500
    /\ graph_visualizer.zoom_factor = 5000

-----------------------------------------------------------------------------
(* Claims about what a frame shows (SpecViz) *)

\* The state is the one draw_graph_on_frame has just produced
Drawn == last.op = "draw_graph_on_frame"
SeqRange(seq) == { seq[i] : i \in 1..Len(seq) }
NodeOnScreen(node) ==
    /\ node \in DOMAIN graph_visualizer.node_screen_positions
    /\ graph_visualizer.node_screen_positions[node] # OffScreen
    /\ graph_visualizer.node_screen_positions[node][1] \in 0..(graph_visualizer.screen_width - 1)
    /\ graph_visualizer.node_screen_positions[node][2] \in 0..(graph_visualizer.screen_height - 1)

\* C27: an edge is drawn in a frame only if both of its endpoints are on
\* screen in that frame; an edge with an endpoint off-screen or marked with
\* the sentinel is not drawn.
C27_EdgesOnlyBetweenOnScreenNodes ==
    Drawn =>
       /\ SeqRange(last.edges_drawn) \subseteq SeqRange(graph_visualizer.edge_data)
       /\ \A edge \in SeqRange(last.edges_drawn) :
             NodeOnScreen(edge[1]) /\ NodeOnScreen(edge[2])
       /\ \A edge \in SeqRange(graph_visualizer.edge_data) :
             (~NodeOnScreen(edge[1]) \/ ~NodeOnScreen(edge[2]))
                => edge \notin SeqRange(last.edges_drawn)

\* An edge from a node on screen to a node off it is left out, an edge
\* between two nodes on screen is drawn
C27_Witness ==
    /\ Drawn
    /\ \E edge \in SeqRange(graph_visualizer.edge_data) :
          /\ ~NodeOnScreen(edge[1])
          /\ NodeOnScreen(edge[2])
          /\ edge \notin SeqRange(last.edges_drawn)
    /\ \E edge \in SeqRange(last.edges_drawn) :
          NodeOnScreen(edge[1]) /\ NodeOnScreen(edge[2])

\* The squared distance from the eye of a node's position after the current
\* yaw and pitch have been applied to it
RotatedDistance(node) ==
    SquaredNorm(RelativePos(graph_visualizer, graph_visualizer.node_positions[node]))

\* C28: in every frame the nodes are drawn in non-increasing order of their
\* camera-relative distance, the distance from the eye of the node position
\* after the current yaw/pitch rotation: of two drawn nodes the one nearer to
\* the camera in the rotated scene is drawn later.
C28_NodesDrawnFarthestFirst ==
    Drawn =>
       \A i, j \in 1..Len(last.nodes_drawn) :
          i < j => ~Farther(RotatedDistance(last.nodes_drawn[j]),
                            RotatedDistance(last.nodes_drawn[i]))

\* What does hold: the nodes are drawn in non-increasing order of the
\* distance between the eye and their position as stored, not rotated
C28_NodesDrawnFarthestFirstUnrotated ==
    Drawn =>
       /\ \A i, j \in 1..Len(last.nodes_drawn) :
             i < j => ~Farther(CameraDistance(graph_visualizer, last.nodes_drawn[j]),
                               CameraDistance(graph_visualizer, last.nodes_drawn[i]))
       /\ SeqRange(last.nodes_drawn) = { node \in Nodes : NodeOnScreen(node) }

(***************************************************************************)
(* Claims about a failing landmark extractor (Spec)                        *)
(***************************************************************************)
\* process_gestures has run on a frame on which the extractor raises
ExtractorRaised == pc = "gestures" /\ last'.op = "process_gestures" /\ frame.extractor_raises

\* C29: when the landmark extractor raises during a frame the exception is
\* caught at the boundary: no intent is applied in that frame; the mode, the
\* camera state, the node positions and the gesture tracking caches are
\* unchanged; the main loop goes on (to the voice commands, the drawing and
\* the key of this frame, and from a key that does not quit to the next frame).
C29_ExtractorFailureContained ==
    [][/\ ExtractorRaised =>
            /\ pc' = "commands"
            /\ UNCHANGED <<running, current_mode, graph_visualizer,
                           gesture_detector, gesture_data>>
       /\ last'.op = "apply_gesture_to_graph" => ~frame.extractor_raises
       /\ (frame.extractor_raises /\ pc = "key" /\ last'.op = "key"
              /\ last'.key \notin {KeyQ, KeyEsc}) =>
            /\ pc' = "loop"
            /\ running']_vars

\* The second frame fails after a pinch has been tracked in the first, in drag
\* mode: the kept event and the caches are there to be misused
C29_Witness ==
    /\ pc = "commands"
    /\ last.op = "process_gestures"
    /\ frame.extractor_raises
    /\ frame_count = 1
    /\ current_mode = "drag"
    /\ gesture_data # EmptyDict
    /\ gesture_data.gesture_type = "pinch"

\* The loop is back at its head, running, after a frame that failed
C29_WitnessNextFrame ==
    /\ pc = "loop"
    /\ running
    /\ frame.extractor_raises
    /\ frame_count < MaxFrames

(***************************************************************************)
(* Claims about the hit test of a drag (SpecDrag)                          *)
(***************************************************************************)
\* apply_gesture_to_graph is about to pass a pinch that has moved to
\* drag_node, which performs its hit test
HitTestNext ==
    /\ pc = "apply"
    /\ current_mode = "drag"
    /\ gesture_data.gesture_type = "pinch"
    /\ gesture_data.movement # <<0, 0>>

\* C30: whenever a drag intent performs its hit test, the screen position
\* cached for every node equals the projection of that node's current 3D
\* position under the current camera state (yaw, pitch, zoom): the hit test
\* never uses projections that predate a camera change such as an 'r'-key
\* reset, and never runs against an empty cache before the first render.
C30_HitTestOnCurrentProjections ==
    HitTestNext =>
       /\ DOMAIN graph_visualizer.node_screen_positions = Nodes
       /\ \A node \in Nodes :
             graph_visualizer.node_screen_positions[node]
                = _project_3d_to_2d(graph_visualizer,
                                    graph_visualizer.node_positions[node])

\* What does hold: the hit test runs on the positions of the frame drawn
\* last, never on an empty cache
C30_HitTestAfterFirstRender ==
    HitTestNext =>
       /\ frame_count >= 1
       /\ DOMAIN graph_visualizer.node_screen_positions = Nodes

(***************************************************************************)
(* Claims about what each intent changes (SpecViz)                         *)
(***************************************************************************)
\* The visualizer with the fields named by `fields` blanked out
Without(viz, fields) == [f \in (DOMAIN viz) \ fields |-> viz[f]]

\* Both visualizers differ in no field but those of `fields`
OnlyChanges(fields) ==
    Without(graph_visualizer', fields) = Without(graph_visualizer, fields)

\* The nodes whose stored position a step has changed
MovedNodes ==
    { node \in Nodes : graph_visualizer'.node_positions[node]
                          # graph_visualizer.node_positions[node] }

\* C31: scene and camera state are changed only by their own intent: a rotate
\* intent changes only yaw and pitch, a zoom intent only the zoom scalar, a
\* drag intent only the X and Y coordinates of the hit node and the selected
\* node; no step changes the Z coordinate of a node, and the eye position
\* changes only by being set to its default on reset.
C31_IntentsChangeOnlyTheirOwnState ==
    [][/\ last'.op = "rotate_graph" => OnlyChanges({"rotation_y", "rotation_x"})
       /\ last'.op = "zoom_graph" => OnlyChanges({"zoom_factor"})
       /\ last'.op = "drag_node" =>
            /\ OnlyChanges({"node_positions", "selected_node"})
            /\ MovedNodes \subseteq {graph_visualizer'.selected_node}
       /\ \A node \in Nodes :
             graph_visualizer'.node_positions[node][3]
                = graph_visualizer.node_positions[node][3]
       /\ graph_visualizer'.camera_pos # graph_visualizer.camera_pos =>
            /\ last'.op = "reset_camera"
            /\ graph_visualizer'.camera_pos = DefaultCameraPos
       /\ last'.op = "reset_camera" => graph_visualizer'.camera_pos = DefaultCameraPos]_vars

\* A drag has moved a node in X and in Y after the camera had been rotated
C31_Witness ==
    /\ last.op = "drag_node"
    /\ last.camera_before[3] # 0
    /\ \E node \in Nodes :
          /\ graph_visualizer.selected_node = node
          /\ \E layout \in Layouts :
                /\ graph_visualizer.node_positions[node][1] # layout[node][1]
                /\ graph_visualizer.node_positions[node][2] # layout[node][2]
                /\ graph_visualizer.node_positions[node][3] = layout[node][3]

(***************************************************************************)
(* Claims about the keys and the order of a frame's steps (Spec)           *)
(***************************************************************************)
\* The key of this frame has been handled, and it was k
KeyHandled(k) == pc = "key" /\ last'.op = "key" /\ last'.key = k
\* The 'r' key of this frame has been handled
KeyRHandled == pc = "key" /\ last'.op = "reset_camera" /\ last'.by = "key"

\* C32: key handling per frame: '1' sets mode rotate, '2' sets mode drag, '3'
\* sets mode zoom, 'r' resets the camera without changing the mode, 'q' or
\* ESC ends the main loop, and any other key (or no key) changes neither the
\* mode nor the camera.
C32_KeyHandling ==
    [][/\ (pc = "key" /\ pc' # pc) => (KeyRHandled \/ \E k \in Keys \ {KeyR} : KeyHandled(k))
       /\ KeyHandled(Key1) => (current_mode' = "rotate" /\ pc' = "loop")
       /\ KeyHandled(Key2) => (current_mode' = "drag" /\ pc' = "loop")
       /\ KeyHandled(Key3) => (current_mode' = "zoom" /\ pc' = "loop")
       /\ (\E k \in {Key1, Key2, Key3} : KeyHandled(k)) => UNCHANGED graph_visualizer
       /\ KeyRHandled =>
            /\ graph_visualizer' = reset_camera(graph_visualizer)
            /\ UNCHANGED current_mode
            /\ pc' = "loop"
       /\ (KeyHandled(KeyQ) \/ KeyHandled(KeyEsc)) =>
            /\ pc' = "stop"
            /\ UNCHANGED <<current_mode, graph_visualizer, frame_count>>
       /\ (\E k \in Keys \ {Key1, Key2, Key3, KeyR, KeyQ, KeyEsc} : KeyHandled(k)) =>
            /\ UNCHANGED <<current_mode, graph_visualizer>>
            /\ pc' = "loop"
       /\ (pc = "stop" /\ pc' # pc) => (pc' = "done" /\ ~running')]_vars

\* 'r' has reset a camera that a fist had turned, in drag mode
C32_Witness ==
    /\ last.op = "reset_camera"
    /\ last.by = "key"
    /\ last.camera_before[3] # 0
    /\ current_mode = "drag"
    /\ graph_visualizer.rotation_y = 0

\* A key without a branch has been handled in zoom mode, the loop goes on
C32_WitnessOtherKey ==
    /\ last.op = "key"
    /\ last.key = KeyX
    /\ current_mode = "zoom"
    /\ pc = "loop"

\* The positions of the main loop that may follow a position within a frame
NextPositions(p) ==
    CASE p = "loop" -> {"gestures", "stop"}
      [] p = "gestures" -> {"apply", "commands"}
      [] p = "apply" -> {"commands"}
      [] p = "commands" -> {"commands", "key"}
      [] p = "key" -> {"loop", "stop"}
      [] OTHER -> {"loop", "done"}

\* C33: within one frame the steps run in the order classify gesture,
\* dispatch gesture, drain commands, render, handle key; the gesture of frame
\* N is dispatched under the mode in force at the start of frame N (the mode
\* does not change from the reading of the frame to its dispatch, whatever
\* waits in the queue), so a mode command drained or a key pressed in frame N
\* first affects the gesture of frame N+1.
C33_FrameStepOrder ==
    [][/\ (last' # last \/ pc' # pc) => pc' \in NextPositions(pc)
       /\ pc \in {"loop", "gestures", "apply"} => UNCHANGED current_mode
       /\ (pc = "gestures" /\ pc' = "apply") =>
            gesture_data' = detect_gestures(gesture_detector, frame).result
       /\ (pc = "apply" /\ pc' # pc) =>
            /\ graph_visualizer' =
                  apply_gesture_to_graph(current_mode, graph_visualizer, gesture_data)
            /\ UNCHANGED frame_count
       /\ (pc = "commands" /\ pc' = "key") =>
            (voice_commands = <<>> /\ last'.op = "draw_graph_on_frame")
       /\ current_mode' # current_mode => pc \in {"commands", "key"}]_vars

\* A fist has turned the view under rotate mode while the command for drag
\* mode was waiting in the queue
C33_Witness ==
    /\ pc = "commands"
    /\ last.op = "apply_gesture_to_graph"
    /\ voice_commands # <<>>
    /\ handle_voice_command(current_mode, graph_visualizer, Head(voice_commands)).current_mode
          = "drag"
    /\ current_mode = "rotate"
    /\ gesture_data.gesture_type = "fist"
    /\ graph_visualizer.rotation_y # 0

\* The mode set in the first frame is the one the second frame's gesture is
\* dispatched under: a pinch has dragged a node
C33_WitnessNextFrame ==
    /\ pc = "commands"
    /\ last.op = "apply_gesture_to_graph"
    /\ frame_count = 1
    /\ current_mode = "drag"
    /\ graph_visualizer.selected_node # NoNode

(***************************************************************************)
(* Claims about producer and consumer of the commands (SpecVoice)          *)
(***************************************************************************)
\* C34: every command string the voice producer can put on the queue (every
\* return value of _process_command) is recognised by the consumer
\* handle_voice_command: it causes a mode change or a camera reset and never
\* falls into the unknown-command branch.
C34_QueuedCommandsAreRecognised ==
    \A i \in 1..Len(voice_commands) : ~UnknownCommand(voice_commands[i])

\* What does hold: a queued command is one of the nine phrases of the
\* producer's table, and all of them but "rotation mode", "reset camera" and
\* "center view" are recognised
C34_QueuedCommandsAreRecognisedButThree ==
    \A i \in 1..Len(voice_commands) :
       /\ \E j \in 1..Len(commands) : voice_commands[i] = commands[j][1]
       /\ UnknownCommand(voice_commands[i])
            <=> voice_commands[i] \in {P_rotation_mode, P_reset_camera, P_center_view}

(***************************************************************************)
(* Claims about the visualizer in every state (SpecViz)                    *)
(***************************************************************************)
\* C37: in every reachable state the zoom scalar lies in [0.2, 5.0]: it starts
\* at 1.5, every zoom intent clamps the product to that range, and reset sets
\* it back to 1.5, for any sequence of zoom ratios.
C37_ZoomWithinLimits ==
    /\ [](graph_visualizer.zoom_factor >= 200 /\ graph_visualizer.zoom_factor <= 5000)
    /\ [](last = NoOp => graph_visualizer.zoom_factor = 1500)
    /\ [][/\ last'.op = "zoom_graph" =>
               \/ UNCHANGED graph_visualizer
               \/ graph_visualizer'.zoom_factor =
                     Max(200, Min(5000, (graph_visualizer.zoom_factor * last'.args) \div One))
          /\ last'.op = "reset_camera" => graph_visualizer'.zoom_factor = 1500]_vars

\* A zoom intent with ratio 0.1 has brought the zoom to the lower limit
C37_Witness ==
    /\ last.op = "zoom_graph"
    /\ last.args = 100
    /\ graph_visualizer.zoom_factor = 200

\* Two zoom intents with ratio 4.0 in a row: the second starts at the upper limit
C37_WitnessUpper ==
    /\ last.op = "zoom_graph"
    /\ last.args = 4000
    /\ last.camera_before[4] = 5000
    /\ graph_visualizer.zoom_factor = 5000

\* The node find_closest_node gives drag_node for the gesture position of the
\* drag intent just taken
DragHit ==
    find_closest_node(graph_visualizer,
                      << TruncDiv(last'.args[1][1] * graph_visualizer.screen_width, One),
                         TruncDiv(last'.args[1][2] * graph_visualizer.screen_height, One) >>)

\* C38: the selected node is always either none or a node of the graph: it is
\* none initially, it is set only by a drag intent with non-zero displacement
\* whose hit test returns a node (and then equals the node that was moved), a
\* drag with zero displacement or with no hit leaves it and all node positions
\* unchanged, and reset sets it to none.
C38_SelectedNodeIsNoneOrHit ==
    /\ [](graph_visualizer.selected_node \in Nodes \cup {NoNode})
    /\ [](last = NoOp => graph_visualizer.selected_node = NoNode)
    /\ [][/\ graph_visualizer'.selected_node # graph_visualizer.selected_node =>
               \/ last'.op = "reset_camera"
               \/ /\ last'.op = "drag_node"
                  /\ last'.args[2] # <<0, 0>>
                  /\ DragHit # NoNode
          /\ (last'.op = "drag_node" /\ last'.args[2] # <<0, 0>> /\ DragHit # NoNode) =>
               /\ graph_visualizer'.selected_node = DragHit
               /\ MovedNodes = {DragHit}
          /\ (last'.op = "drag_node" /\ (last'.args[2] = <<0, 0>> \/ DragHit = NoNode)) =>
               /\ UNCHANGED graph_visualizer
          /\ last'.op = "reset_camera" => graph_visualizer'.selected_node = NoNode]_vars

\* A pinch on node 0 that moved by (-0.05, 0.02) has selected and moved it
C38_Witness ==
    /\ last.op = "drag_node"
    /\ last.args[2] = <<-50, 20>>
    /\ graph_visualizer.selected_node = 0
    /\ \E layout \in Layouts :
          graph_visualizer.node_positions =
             [layout EXCEPT ![0] = << layout[0][1] - 5000, layout[0][2] - 2000, layout[0][3] >>]

\* A pinch far from every drawn node has moved: nothing is selected
C38_WitnessNoHit ==
    /\ last.op = "drag_node"
    /\ last.args = << <<900, 900>>, <<50, 0>> >>
    /\ DOMAIN graph_visualizer.node_screen_positions = Nodes
    /\ graph_visualizer.selected_node = NoNode

=============================================================================
